---- MODULE Spec2Model ----
\* Extraction of a MIRA template model from an SBML model
\* (src/mira/sources/sbml.py).  One call of template_model_from_sbml_model is
\* followed from its entry to its return or to the exception that ends it.
\*
\* Strings.  An identifier is a sequence of atoms, an atom being a piece of
\* text that holds the word "lambda" either exactly or not at all:
\* `lambda_rate` is <<"lambda", "_rate">> and `XXlambdaXX` is
\* <<"XX", "lambda", "XX">>.  str.replace('lambda', ...) then acts atom by atom.
\* A formula string is its tokens' tree: identifier tokens at the leaves,
\* operators inside, and Bad for a text that is no expression.
\*
\* sympy is used through three operations, modelled by what they do to the
\* structure of an expression: parse_expr resolves every identifier (through
\* local_dict, else to a fresh Symbol; the Python keyword `lambda` is a syntax
\* error), subs substitutes its pairs one after the other, and the free
\* variables are read off the leaves.  sympy's algebraic rewriting of an
\* expression is left out.
\*
\* Spec follows one call over every reaction list the pools give.  SpecVariants
\* follows a call, and a second call after it, on documents that vary the
\* species' annotations, the parameter and compartment ids, the assignment
\* rules and the function definitions, with fewer reactions to choose from.
\* SpecEntry follows a call of one of the entry points, from the path, the
\* open file or the text it is given down to the extraction and back to the
\* caller, on documents that vary the body of a function definition.
\* SpecTriples follows the construction of a TriplesGenerator from a template
\* model.
EXTENDS Naturals, Sequences, FiniteSets, TLC

VARIABLES
    pc,                 \* where the call is
    doc,                \* sbml_model: species, parameters, compartments, ...
    model_id,           \* the model_id argument (NoModelId: None)
    reporter_ids,       \* the reporter_ids argument, as a set
    reactions,          \* sbml_model.reactions, as far as the loop has read
    concepts,           \* species id -> Concept
    all_species,
    all_parameters,
    parameter_symbols,
    compartment_symbols,
    function_lambdas,
    all_locals,
    assignment_rules,
    templates,          \* the template list
    log,                \* the records handed to logger.debug, in order
    steps,              \* per reaction read: what it appended to templates and log
    parser_input,       \* the strings handed to sympy.parse_expr, in order
    result,             \* the returned ParseResult's template_model, or NoResult
    error,              \* the exception that ended the call, or NoError
    converter,          \* the module's Converter: its curies converter, once loaded
    run,                \* 1 in the first call on the document, 2 in a second one
    previous,           \* what the first call returned, during a second one
    loads,              \* how often the module's Converter built its curies converter
    call,               \* the entry point the caller called, and its argument
    returned,           \* what the entry point handed back to its caller
    generator           \* the TriplesGenerator under construction

vars == <<pc, doc, model_id, reporter_ids, reactions, concepts, all_species,
          all_parameters, parameter_symbols, compartment_symbols,
          function_lambdas, all_locals, assignment_rules, templates, log,
          steps, parser_input, result, error, converter, run, previous,
          loads, call, returned, generator>>

\* ------------------------------------------------------------------ bounds
\* The number of reactions of a document.
MaxReactions == 2

\* -------------------------------------------------------------- identifiers
Id(a) == <<a>>
LambdaWord == "lambda"
IdLambda == <<"lambda">>
IdPlaceholder == <<"XX", "lambda", "XX">>
IdSus == <<"Sus">>
IdInf == <<"Inf">>
IdRec == <<"Rec">>
IdExp == <<"Exp">>
IdUnk == <<"Unk">>
IdHosp == <<"Hosp">>
IdDead == <<"Dead">>
IdBeta == <<"beta">>
IdGamma == <<"gamma">>
IdK == <<"k">>
IdM == <<"m">>
IdCell == <<"cell">>
IdF == <<"f">>
IdX == <<"x">>
IdY == <<"y">>
IdG == <<"g">>
IdLambdaRate == <<"lambda", "_rate">>

\* The identifiers of the documents below in ascending order of Python's
\* string comparison (upper case before lower case).
IdOrder == <<IdDead, IdExp, IdHosp, IdInf, IdRec, IdSus, IdUnk, IdPlaceholder, IdBeta,
             IdCell, IdF, IdG, IdGamma, IdK, IdLambda, IdLambdaRate, IdM, IdX, IdY>>

\* sorted(s) for a set s of identifiers.
Sorted(s) == SelectSeq(IdOrder, LAMBDA i : i \in s)

SeqToSet(q) == {q[i] : i \in DOMAIN q}

\* ------------------------------------------------------------- dictionaries
EmptyDict == [i \in {} |-> 0]
Put(d, key, v) == [i \in DOMAIN d \cup {key} |-> IF i = key THEN v ELSE d[i]]
Pop(d, key) == [i \in DOMAIN d \ {key} |-> d[i]]

\* {e.id: val(e) for e in q}: a later entry of the same id replaces an earlier.
RECURSIVE DictOf(_, _, _)
DictOf(q, val(_), d) ==
    IF q = <<>> THEN d
    ELSE DictOf(Tail(q), val, Put(d, Head(q).id, val(Head(q))))

\* dict(list(a.items()) + list(b.items())): b's entries replace a's.
Merge(a, b) == [i \in DOMAIN a \cup DOMAIN b |-> IF i \in DOMAIN b THEN b[i] ELSE a[i]]

\* ------------------------------------------------------------- expressions
\* Formula text.
Name(i) == [k |-> "name", id |-> i]
Lit(v) == [k |-> "lit", v |-> v]
Bin(o, a, b) == [k |-> "op", op |-> o, l |-> a, r |-> b]
Bad == [k |-> "bad"]
\* sympy expressions.
Symbol(n) == [k |-> "sym", name |-> n]
Number(v) == [k |-> "num", v |-> v]
Lambda(sig, body) == [k |-> "lambda", args |-> sig, body |-> body]

\* ---------------------------------------------------- reserved-word renaming
\* i.replace('lambda', 'XXlambdaXX') on one identifier token.
RECURSIVE ReplaceLambda(_)
ReplaceLambda(i) ==
    IF i = <<>> THEN <<>>
    ELSE (IF Head(i) = LambdaWord THEN IdPlaceholder ELSE <<Head(i)>>)
         \o ReplaceLambda(Tail(i))

\* clean_formula(f): the replacement over the whole formula string, which
\* reaches every identifier token of it.
RECURSIVE clean_formula(_)
clean_formula(f) ==
    CASE f.k = "name" -> Name(ReplaceLambda(f.id))
      [] f.k = "op" -> Bin(f.op, clean_formula(f.l), clean_formula(f.r))
      [] OTHER -> f

\* ------------------------------------------------------------------- sympy
\* Whether sympy.parse_expr(f, ...) raises: the text is no expression, or it
\* holds the Python keyword `lambda` where an identifier is meant.
RECURSIVE ParseRaises(_)
ParseRaises(f) ==
    CASE f.k = "bad" -> TRUE
      [] f.k = "name" -> f.id = IdLambda
      [] f.k = "op" -> ParseRaises(f.l) \/ ParseRaises(f.r)
      [] OTHER -> FALSE

\* sympy.parse_expr(f, local_dict=local_dict) where it does not raise: an
\* identifier is what local_dict holds for it, else a new Symbol of that name.
RECURSIVE parse_expr(_, _)
parse_expr(f, local_dict) ==
    CASE f.k = "name" ->
            IF f.id \in DOMAIN local_dict THEN local_dict[f.id] ELSE Symbol(f.id)
      [] f.k = "lit" -> Number(f.v)
      [] f.k = "op" -> Bin(f.op, parse_expr(f.l, local_dict), parse_expr(f.r, local_dict))

\* expr._subs(Symbol(old), new).
RECURSIVE SubsOne(_, _, _)
SubsOne(expr, old, new) ==
    CASE expr.k = "sym" -> IF expr.name = old THEN new ELSE expr
      [] expr.k = "op" -> Bin(expr.op, SubsOne(expr.l, old, new), SubsOne(expr.r, old, new))
      [] OTHER -> expr

RECURSIVE SubsSeq(_, _, _)
SubsSeq(expr, keys, d) ==
    IF keys = <<>> THEN expr
    ELSE SubsSeq(SubsOne(expr, Head(keys), d[Head(keys)]), Tail(keys), d)

\* expr.subs(d) for a dict d keyed by symbol names: sympy orders the pairs
\* (symbols by name) and applies them one after the other to the running
\* result.
subs(expr, d) == SubsSeq(expr, Sorted(DOMAIN d), d)

\* Lines 359-361: whether the assertion fails somewhere in the expression.
\* A node that is no Symbol must be an Expr; the first argument of a Lambda
\* is the Tuple of its signature, which is none.
RECURSIVE AssertExprFails(_)
AssertExprFails(expr) ==
    CASE expr.k = "lambda" -> TRUE
      [] expr.k = "op" -> AssertExprFails(expr.l) \/ AssertExprFails(expr.r)
      [] OTHER -> FALSE

\* Mutant: only the first argument of a node is looked into.
RECURSIVE variables_from_sympy_expr_FirstArg(_)
variables_from_sympy_expr_FirstArg(expr) ==
    CASE expr.k = "sym" -> {expr.name}
      [] expr.k = "op" -> variables_from_sympy_expr_FirstArg(expr.l)
      [] OTHER -> {}

\* Lines 356-365, where the assertion holds: the names of the Symbol leaves.
RECURSIVE variables_from_sympy_expr(_)
variables_from_sympy_expr(expr) ==
    CASE expr.k = "sym" -> {expr.name}
      [] expr.k = "op" -> variables_from_sympy_expr(expr.l)
                          \cup variables_from_sympy_expr(expr.r)
      [] OTHER -> {}

\* ------------------------------------------------------- get_formula_str
\* An ASTNode is [name, op, value, children]: name <<>> when getName() gives
\* nothing, op "" when getOperatorName() gives nothing, value NoValue for None.
NoValue == [t |-> "none"]
NaN == [t |-> "nan"]
Real(v) == [t |-> "real", v |-> v]
AstName(i) == [name |-> i, op |-> "", value |-> NoValue, children |-> <<>>]
AstOp(o, a, b) == [name |-> <<>>, op |-> o, value |-> NoValue, children |-> <<a, b>>]
AstNamedOp(i, o, a, b) == [name |-> i, op |-> o, value |-> NoValue, children |-> <<a, b>>]
AstValue(v) == [name |-> <<>>, op |-> "", value |-> v, children |-> <<>>]

OpStr(op) ==
    CASE op = "times" -> "*"
      [] op = "plus" -> "+"
      [] op = "divide" -> "/"
      [] op = "minus" -> "-"
      [] OTHER -> "?"

\* The result is a string (a formula text), a float [k |-> "float"], None
\* [k |-> "none"], or the AssertionError of line 345 [k |-> "assert"].
AssertFalse == [k |-> "assert"]
\* '%s' of a result inside the enclosing string.
FormatStr(res) ==
    CASE res.k = "float" -> IF res.v = NaN THEN Name(<<"nan">>) ELSE Lit(res.v.v)
      [] res.k = "none" -> Name(<<"None">>)
      [] OTHER -> res

\* Mutant: an operator outside the table is written out like the others.
RECURSIVE get_formula_str_AnyOperator(_)
get_formula_str_AnyOperator(ast_node) ==
    IF ast_node.name = <<>>
    THEN IF ast_node.op # ""
         THEN Bin(OpStr(ast_node.op),
                  FormatStr(get_formula_str_AnyOperator(ast_node.children[1])),
                  FormatStr(get_formula_str_AnyOperator(ast_node.children[2])))
         ELSE IF ast_node.value # NoValue
              THEN [k |-> "float", v |-> ast_node.value]
              ELSE [k |-> "none"]
    ELSE Name(ast_node.name)

\* Mutant: the second child is written in front of the first.
RECURSIVE get_formula_str_OperandsSwapped(_)
get_formula_str_OperandsSwapped(ast_node) ==
    IF ast_node.name = <<>>
    THEN IF ast_node.op # ""
         THEN IF ast_node.op \notin {"times", "plus", "divide", "minus"}
              THEN AssertFalse
              ELSE LET a == get_formula_str_OperandsSwapped(ast_node.children[1])
                       b == get_formula_str_OperandsSwapped(ast_node.children[2])
                   IN  IF a = AssertFalse \/ b = AssertFalse THEN AssertFalse
                       ELSE Bin(OpStr(ast_node.op), FormatStr(b), FormatStr(a))
         ELSE IF ast_node.value # NoValue
              THEN [k |-> "float", v |-> ast_node.value]
              ELSE [k |-> "none"]
    ELSE Name(ast_node.name)

RECURSIVE get_formula_str(_)
get_formula_str(ast_node) ==
    IF ast_node.name = <<>>
    THEN IF ast_node.op # ""
         THEN IF ast_node.op \notin {"times", "plus", "divide", "minus"}
              THEN AssertFalse
              ELSE LET a == get_formula_str(ast_node.children[1])
                       b == get_formula_str(ast_node.children[2])
                   IN  IF a = AssertFalse \/ b = AssertFalse THEN AssertFalse
                       ELSE Bin(OpStr(ast_node.op), FormatStr(a), FormatStr(b))
         ELSE IF ast_node.value # NoValue
              THEN [k |-> "float", v |-> ast_node.value]
              ELSE [k |-> "none"]
    ELSE Name(ast_node.name)

\* ------------------------------------------------------------ the metamodel
\* Concept(name=..., identifiers=..., context=...).
Concept(n, ids, ctx) == [name |-> n, identifiers |-> ids, context |-> ctx]

\* Concept equality, a == b: equal identifiers and equal context; the name is
\* for display only.
ConceptEq(a, b) == a.identifiers = b.identifiers /\ a.context = b.context

NaturalConversion(s, o, rate) ==
    [type |-> "NaturalConversion", subject |-> s, outcome |-> o, rate_law |-> rate]
ControlledConversion(s, o, c, rate) ==
    [type |-> "ControlledConversion", subject |-> s, outcome |-> o,
     controller |-> c, rate_law |-> rate]
GroupedControlledConversion(s, o, cs, rate) ==
    [type |-> "GroupedControlledConversion", subject |-> s, outcome |-> o,
     controllers |-> cs, rate_law |-> rate]
NaturalProduction(o, rate) ==
    [type |-> "NaturalProduction", outcome |-> o, rate_law |-> rate]
NaturalDegradation(s, rate) ==
    [type |-> "NaturalDegradation", subject |-> s, rate_law |-> rate]
TemplateModel(ts, ps) == [k |-> "TemplateModel", templates |-> ts, parameters |-> ps]

\* ------------------------------------------------------------ the documents
NoModelId == "None"
NoResult == [k |-> "none"]
NoError == "none"
\* sbml_document.model of a document without a model body: None.
NoModel == [k |-> "no model"]
\* No entry point was called; no TriplesGenerator is being constructed.
NoCall == [fn |-> "none"]
NoGenerator == [state |-> "none"]

\* A resource URI of an annotation: the registry's URI prefix and the local id.
Uri(base, local) == [base |-> base, local |-> local]
\* bioregistry's reverse prefix map, for the URI prefixes of the documents.
ReversePrefixMap ==
    [b \in {"http://identifiers.org/ido/", "http://identifiers.org/ncit/"} |->
        IF b = "http://identifiers.org/ido/" THEN "ido" ELSE "ncit"]
\* converter.parse_uri(uri): the (prefix, identifier) pair.
parse_uri(uri) == <<ReversePrefixMap[uri.base], <<uri.local>>>>
\* Converter.converter: None until the first parse_uri loads it (lines 89-92).
NoConverter == "None"
LoadedConverter == "curies.Converter"

\* Lines 88-93, Converter.parse_uri, on the Converter object c: its field
\* converter and the number of curies converters that were built for it.
\* Mutant: every call builds the curies converter.
Converter_parse_uri_AlwaysLoad(c) ==
    [converter |-> LoadedConverter, loads |-> c.loads + 1]

Converter_parse_uri(c) ==
    IF c.converter = NoConverter
    THEN [converter |-> LoadedConverter, loads |-> c.loads + 1]
    ELSE c

NoAnnotation == [present |-> FALSE, is |-> <<>>, isVersionOf |-> <<>>, hasProperty |-> <<>>]
Annotation(is, ver, prop) ==
    [present |-> TRUE, is |-> is, isVersionOf |-> ver, hasProperty |-> prop]

\* Four species: grounded by bqbiol:is and with a property; grounded by
\* bqbiol:isVersionOf only and without a display name; not annotated; not
\* annotated and without a display name.
SpeciesList ==
    << [id |-> IdSus, name |-> <<"Susceptible">>,
        annotation |-> Annotation(<<Uri("http://identifiers.org/ido/", "0000514")>>, <<>>,
                                  <<Uri("http://identifiers.org/ncit/", "C1")>>)],
       [id |-> IdInf, name |-> <<>>,
        annotation |-> Annotation(<<>>, <<Uri("http://identifiers.org/ido/", "0000511")>>, <<>>)],
       [id |-> IdRec, name |-> <<"Recovered">>, annotation |-> NoAnnotation],
       [id |-> IdExp, name |-> <<>>, annotation |-> NoAnnotation] >>

Param(i, v) == [id |-> i, value |-> v]
Compartment(i, v) == [id |-> i, volume |-> v]
FunDef(i, args, body) == [id |-> i, args |-> args, body |-> body]
Rule(i, f) == [id |-> i, formula |-> f]

Times(a, b) == Bin("*", a, b)

Document(ps, fs, rs) ==
    [species |-> SpeciesList, parameters |-> ps,
     compartments |-> <<Compartment(IdCell, 1)>>,
     function_definitions |-> fs, rules |-> rs]

FunTimes == FunDef(IdF, <<IdX, IdY>>, AstOp("times", AstName(IdX), AstName(IdY)))
FunPower == FunDef(IdF, <<IdX, IdY>>, AstOp("power", AstName(IdX), AstName(IdY)))
RuleK == Rule(IdK, Times(Name(IdGamma), Name(IdSus)))
RuleKLambda == Rule(IdK, Times(Name(IdLambda), Name(IdSus)))

Documents ==
    { \* no identifier is the reserved word
      Document(<<Param(IdBeta, 2), Param(IdGamma, 3)>>, <<FunTimes>>, <<RuleK>>),
      \* a parameter named lambda
      Document(<<Param(IdBeta, 2), Param(IdGamma, 3), Param(IdLambda, 5)>>,
               <<FunTimes>>, <<RuleK>>),
      \* a parameter named lambda, used by an assignment rule
      Document(<<Param(IdBeta, 2), Param(IdLambda, 5)>>, <<FunTimes>>, <<RuleKLambda>>),
      \* a function definition with an operator outside the table
      Document(<<Param(IdBeta, 2)>>, <<FunPower>>, <<>>) }

CallArgs ==
    { [model_id |-> NoModelId, reporter_ids |-> {}],
      [model_id |-> "BIOMD1", reporter_ids |-> {IdInf}] }

\* The reactions a document may hold: the participant lists and the kinetic law.
NoKineticLaw == [k |-> "none"]
KineticLaw(f) == [k |-> "law", formula |-> f]
Reaction(n, rs, ps, ms, law) ==
    [id |-> n, reactants |-> rs, products |-> ps, modifiers |-> ms, kinetic_law |-> law]

SidesPool ==
    { <<<<>>, <<>>>>, <<<<>>, <<IdInf>>>>, <<<<>>, <<IdRec, IdInf>>>>,
      <<<<IdSus>>, <<>>>>, <<<<IdSus, IdExp>>, <<>>>>,
      <<<<IdSus>>, <<IdInf>>>>, <<<<IdSus>>, <<IdRec>>>>, <<<<IdSus>>, <<IdSus>>>>,
      <<<<IdExp>>, <<IdExp>>>>, <<<<IdRec>>, <<IdExp>>>>,
      <<<<IdSus, IdInf>>, <<IdInf, IdRec>>>>, <<<<IdSus>>, <<IdInf, IdRec>>>>,
      <<<<IdSus, IdInf>>, <<IdRec>>>>, <<<<IdUnk>>, <<IdRec>>>> }
ModifiersPool == { <<>>, <<IdInf>>, <<IdRec, IdExp>> }
LawsPool ==
    { NoKineticLaw, KineticLaw(Bad),
      KineticLaw(Times(Name(IdBeta), Name(IdSus))),
      KineticLaw(Times(Times(Name(IdBeta), Name(IdSus)), Name(IdInf))),
      KineticLaw(Times(Times(Name(IdCell), Name(IdRec)), Name(IdInf))),
      KineticLaw(Times(Name(IdLambda), Name(IdSus))),
      KineticLaw(Times(Name(IdBeta), Name(IdK))) }
ReactionPool(n) ==
    { Reaction(n, sides[1], sides[2], ms, law) :
        sides \in SidesPool, ms \in ModifiersPool, law \in LawsPool }

\* ----------------------------------------------------- document variants
\* Documents with a species grounded under both relations (twice under
\* bqbiol:is, with resources of one registry) and one whose
\* annotation holds no resource, a parameter that shares its id with a
\* compartment, assignment rules that name each other,
\* function definitions that cannot be compiled, and no model at all.
SpeciesListBoth ==
    SpeciesList \o
    << [id |-> IdHosp, name |-> <<"Hospitalised">>,
        annotation |-> Annotation(<<Uri("http://identifiers.org/ido/", "0000621"),
                                    Uri("http://identifiers.org/ido/", "0000622")>>,
                                  <<Uri("http://identifiers.org/ncit/", "C3")>>, <<>>)],
       [id |-> IdDead, name |-> <<"Deceased">>, annotation |-> Annotation(<<>>, <<>>, <<>>)] >>

DocumentOf(sp, ps, cs, fs, rs) ==
    [species |-> sp, parameters |-> ps, compartments |-> cs,
     function_definitions |-> fs, rules |-> rs]

\* k := beta*m, whose body names the target of the rule below.
RuleKOfM == Rule(IdK, Times(Name(IdBeta), Name(IdM)))
\* m := gamma*Sus.
RuleM == Rule(IdM, Times(Name(IdGamma), Name(IdSus)))
\* m := beta*k, whose body names the target of RuleK.
RuleMOfK == Rule(IdM, Times(Name(IdBeta), Name(IdK)))

FunNestedPower ==
    FunDef(IdF, <<IdX, IdY>>,
           AstOp("times", AstName(IdX), AstOp("power", AstName(IdX), AstName(IdY))))

VariantParameters ==
    <<Param(IdBeta, 2), Param(IdGamma, 3), Param(IdCell, 7), Param(IdLambda, 5)>>
VariantCompartments == <<Compartment(IdCell, 1)>>

VariantDocuments ==
    { DocumentOf(SpeciesListBoth, VariantParameters, VariantCompartments,
                 <<FunTimes>>, <<RuleKOfM, RuleM>>),
      DocumentOf(SpeciesListBoth, VariantParameters, VariantCompartments,
                 <<FunTimes>>, <<RuleM, RuleKOfM>>),
      DocumentOf(SpeciesListBoth, VariantParameters, VariantCompartments,
                 <<FunTimes>>, <<RuleMOfK, RuleK>>),
      \* a compartment named lambda
      DocumentOf(SpeciesListBoth, <<Param(IdBeta, 2), Param(IdGamma, 3)>>,
                 <<Compartment(IdCell, 1), Compartment(IdLambda, 9)>>,
                 <<FunTimes>>, <<RuleM>>),
      DocumentOf(SpeciesListBoth, VariantParameters, VariantCompartments,
                 <<FunTimes, FunNestedPower>>, <<>>),
      DocumentOf(SpeciesListBoth, VariantParameters, VariantCompartments,
                 <<FunPower>>, <<>>),
      NoModel }

VariantCallArgs ==
    { [model_id |-> NoModelId, reporter_ids |-> {}],
      [model_id |-> "", reporter_ids |-> {IdHosp}],
      [model_id |-> "BIOMD1", reporter_ids |-> {IdInf}] }

VariantSidesPool ==
    { <<<<>>, <<IdInf>>>>, <<<<IdSus>>, <<IdInf>>>>, <<<<IdHosp>>, <<IdRec>>>> }
VariantLawsPool ==
    { KineticLaw(Name(IdK)), KineticLaw(Name(IdM)),
      KineticLaw(Times(Name(IdLambda), Name(IdHosp))) }
VariantReactionPool(n) ==
    { Reaction(n, sides[1], sides[2], ms, law) :
        sides \in VariantSidesPool, ms \in {<<>>, <<IdRec>>}, law \in VariantLawsPool }

\* -------------------------------------------------------- _extract_concepts
\* dict(pairs): a later pair of the same key replaces an earlier.
RECURSIVE DictOfPairs(_, _)
DictOfPairs(pairs, d) ==
    IF pairs = <<>> THEN d
    ELSE DictOfPairs(Tail(pairs), Put(d, Head(pairs)[1], Head(pairs)[2]))

ParseUris(uris) == [i \in DOMAIN uris |-> parse_uri(uris[i])]

\* `if model_id:` (line 427): neither None nor the empty string.
ModelIdGiven(mid) == mid # NoModelId /\ mid # ""

\* Mutant: a species without annotation gets the model's entry as well.
ConceptOfSpecies_AlwaysTraceable(species, mid) ==
    LET rdf_properties == ParseUris(species.annotation.hasProperty)
        primary == DictOfPairs(ParseUris(species.annotation.is), EmptyDict)
        identifiers ==
            IF DOMAIN primary = {}
            THEN DictOfPairs(ParseUris(species.annotation.isVersionOf), EmptyDict)
            ELSE primary
        grounded ==
            IF ModelIdGiven(mid)
            THEN Put(identifiers, "biomodels.species", <<mid, ":">> \o species.id)
            ELSE identifiers
    IN  Concept(IF species.annotation.present /\ species.name = <<>>
                THEN species.id ELSE species.name,
                grounded,
                IF rdf_properties # <<>>
                THEN Put(EmptyDict, "property",
                         <<rdf_properties[1][1], ":">> \o rdf_properties[1][2])
                ELSE EmptyDict)

\* Mutant: the resources of both relations are put together.
ConceptOfSpecies_Merged(species, mid) ==
    IF ~species.annotation.present
    THEN Concept(species.name, EmptyDict, EmptyDict)
    ELSE LET rdf_properties == ParseUris(species.annotation.hasProperty)
             identifiers ==
                 DictOfPairs(ParseUris(species.annotation.isVersionOf
                                       \o species.annotation.is), EmptyDict)
             grounded ==
                 IF ModelIdGiven(mid)
                 THEN Put(identifiers, "biomodels.species", <<mid, ":">> \o species.id)
                 ELSE identifiers
         IN  Concept(IF species.name # <<>> THEN species.name ELSE species.id,
                     grounded,
                     IF rdf_properties # <<>>
                     THEN Put(EmptyDict, "property",
                              <<rdf_properties[1][1], ":">> \o rdf_properties[1][2])
                     ELSE EmptyDict)

\* The Concept of one species (the body of the loop of _extract_concepts).
ConceptOfSpecies(species, mid) ==
    IF ~species.annotation.present
    THEN Concept(species.name, EmptyDict, EmptyDict)
    ELSE LET rdf_properties == ParseUris(species.annotation.hasProperty)
             primary == DictOfPairs(ParseUris(species.annotation.is), EmptyDict)
             identifiers ==
                 IF DOMAIN primary = {}
                 THEN DictOfPairs(ParseUris(species.annotation.isVersionOf), EmptyDict)
                 ELSE primary
             grounded ==
                 IF ModelIdGiven(mid)
                 THEN Put(identifiers, "biomodels.species", <<mid, ":">> \o species.id)
                 ELSE identifiers
         IN  Concept(IF species.name # <<>> THEN species.name ELSE species.id,
                     grounded,
                     IF rdf_properties # <<>>
                     THEN Put(EmptyDict, "property",
                              <<rdf_properties[1][1], ":">> \o rdf_properties[1][2])
                     ELSE EmptyDict)

\* logger.debug of line 404.
NoAnnotationsEntry(mid, species_id) ==
    [msg |-> "had no annotations", model_id |-> mid, species |-> species_id]

\* Mutant: a species without annotation gets no Concept.
RECURSIVE ExtractLoop_SkipUnannotated(_, _, _, _)
ExtractLoop_SkipUnannotated(species_list, mid, cs, lg) ==
    IF species_list = <<>> THEN [concepts |-> cs, log |-> lg]
    ELSE LET species == Head(species_list)
         IN  IF ~species.annotation.present
             THEN ExtractLoop_SkipUnannotated(Tail(species_list), mid, cs,
                                              Append(lg, NoAnnotationsEntry(mid, species.id)))
             ELSE ExtractLoop_SkipUnannotated(Tail(species_list), mid,
                                              Put(cs, species.id, ConceptOfSpecies(species, mid)),
                                              lg)

RECURSIVE ExtractLoop(_, _, _, _)
ExtractLoop(species_list, mid, cs, lg) ==
    IF species_list = <<>> THEN [concepts |-> cs, log |-> lg]
    ELSE LET species == Head(species_list)
         IN  ExtractLoop(Tail(species_list), mid,
                         Put(cs, species.id, ConceptOfSpecies(species, mid)),
                         IF ~species.annotation.present
                         THEN Append(lg, NoAnnotationsEntry(mid, species.id))
                         ELSE lg)

_extract_concepts(sbml_model, mid) == ExtractLoop(sbml_model.species, mid, EmptyDict, <<>>)

\* The calls of converter.parse_uri that _extract_concepts makes for one
\* species (lines 414-433): one per hasProperty resource, one per bqbiol:is
\* resource and, when these gave no identifier, one per bqbiol:isVersionOf
\* resource.
ParseUriCallsOf(species) ==
    IF ~species.annotation.present THEN 0
    ELSE Len(species.annotation.hasProperty) + Len(species.annotation.is)
         + (IF species.annotation.is = <<>> THEN Len(species.annotation.isVersionOf)
            ELSE 0)

\* The Converter after n calls of parse_uri.
RECURSIVE ConverterAfter(_, _)
ConverterAfter(c, n) ==
    IF n = 0 THEN c ELSE ConverterAfter(Converter_parse_uri(c), n - 1)

\* The Converter after _extract_concepts has gone through the species.
RECURSIVE ConverterAfterSpecies(_, _)
ConverterAfterSpecies(c, species) ==
    IF species = <<>> THEN c
    ELSE ConverterAfterSpecies(ConverterAfter(c, ParseUriCallsOf(Head(species))),
                               Tail(species))

\* Whether _extract_concepts calls converter.parse_uri: some annotated species
\* has a resource under hasProperty or bqbiol:is, or, having none under
\* bqbiol:is, under bqbiol:isVersionOf.
CallsParseUri(sbml_model) ==
    \E i \in DOMAIN sbml_model.species :
        LET a == sbml_model.species[i].annotation
        IN  /\ a.present
            /\ \/ a.hasProperty # <<>>
               \/ a.is # <<>>
               \/ a.isVersionOf # <<>>

\* ------------------------------------------ the symbol and parameter tables
ParameterValue(p) == p.value
CompartmentVolume(c) == c.volume
SymbolOf(e) == Symbol(e.id)

\* Mutant: the key 'lambda' is left as it is.
AllParameters_NoRename(sbml_model) ==
    DictOf(sbml_model.compartments, CompartmentVolume,
           DictOf(sbml_model.parameters, ParameterValue, EmptyDict))

\* Mutant: the value of a parameter replaces the volume of a compartment of
\* the same id.
AllParameters_ParameterWins(sbml_model) ==
    LET with_compartments ==
            DictOf(sbml_model.parameters, ParameterValue,
                   DictOf(sbml_model.compartments, CompartmentVolume, EmptyDict))
    IN  IF IdLambda \in DOMAIN with_compartments
        THEN Put(Pop(with_compartments, IdLambda), IdPlaceholder, with_compartments[IdLambda])
        ELSE with_compartments

\* Lines 179-189: the parameter values, then the compartment volumes under the
\* compartments' ids, then the key 'lambda' moved to 'XXlambdaXX'.
AllParameters(sbml_model) ==
    LET with_compartments ==
            DictOf(sbml_model.compartments, CompartmentVolume,
                   DictOf(sbml_model.parameters, ParameterValue, EmptyDict))
    IN  IF IdLambda \in DOMAIN with_compartments
        THEN Put(Pop(with_compartments, IdLambda), IdPlaceholder, with_compartments[IdLambda])
        ELSE with_compartments

\* Lines 181-182 and 190-191: the key 'lambda' stays, 'XXlambdaXX' is added.
ParameterSymbols(sbml_model) ==
    LET symbols == DictOf(sbml_model.parameters, SymbolOf, EmptyDict)
    IN  IF IdLambda \in DOMAIN symbols
        THEN Put(symbols, IdPlaceholder, Symbol(IdPlaceholder))
        ELSE symbols

CompartmentSymbols(sbml_model) == DictOf(sbml_model.compartments, SymbolOf, EmptyDict)

\* ---------------------------------------------------- function definitions
\* What parse_expr is handed: a str parses, a float or None raises.
FormulaStrRaises(formula_str) ==
    \/ formula_str.k \in {"float", "none"}
    \/ formula_str.k \in {"name", "op"} /\ ParseRaises(formula_str)

\* One function definition (the body of the loop of lines 195-205): the
\* exception it ends with, whether it is skipped, and its Lambda.
CompileFunction(fun_def) ==
    LET arg_symbols == [a \in SeqToSet(fun_def.args) |-> Symbol(a)]
        signature == [i \in DOMAIN fun_def.args |-> Symbol(fun_def.args[i])]
        formula_str == get_formula_str(fun_def.body)
    IN  IF formula_str = AssertFalse
        THEN [error |-> "AssertionError", skip |-> FALSE, lmbd |-> NoResult,
              parsed |-> <<>>]
        ELSE IF formula_str.k = "float" /\ formula_str.v = NaN
        THEN [error |-> NoError, skip |-> TRUE, lmbd |-> NoResult, parsed |-> <<>>]
        ELSE IF FormulaStrRaises(formula_str)
        THEN [error |-> "ParseError", skip |-> FALSE, lmbd |-> NoResult,
              parsed |-> <<formula_str>>]
        ELSE [error |-> NoError, skip |-> FALSE,
              lmbd |-> Lambda(signature, parse_expr(formula_str, arg_symbols)),
              parsed |-> <<formula_str>>]

RECURSIVE FunctionLoop(_, _, _)
FunctionLoop(fun_defs, lambdas, parsed) ==
    IF fun_defs = <<>> THEN [error |-> NoError, lambdas |-> lambdas, parsed |-> parsed]
    ELSE LET c == CompileFunction(Head(fun_defs))
         IN  IF c.error # NoError
             THEN [error |-> c.error, lambdas |-> lambdas, parsed |-> parsed \o c.parsed]
             ELSE FunctionLoop(Tail(fun_defs),
                               IF c.skip THEN lambdas
                               ELSE Put(lambdas, Head(fun_defs).id, c.lmbd),
                               parsed \o c.parsed)

\* Lines 207-209.
AllLocals(ps, cs, fs) == Merge(Merge(ps, cs), fs)

\* ---------------------------------------------------------- assignment rules
\* Lines 212-215: each rule's formula is parsed as it stands.
RECURSIVE RuleLoop(_, _, _, _)
RuleLoop(rules, locals, table, parsed) ==
    IF rules = <<>> THEN [error |-> NoError, rules |-> table, parsed |-> parsed]
    ELSE IF ParseRaises(Head(rules).formula)
    THEN [error |-> "ParseError", rules |-> table,
          parsed |-> Append(parsed, Head(rules).formula)]
    ELSE RuleLoop(Tail(rules), locals,
                  Put(table, Head(rules).id, parse_expr(Head(rules).formula, locals)),
                  Append(parsed, Head(rules).formula))

\* ------------------------------------------------------- one reaction
\* Lines 169-172.  The lookup concepts[species_id] raises KeyError for an id
\* that is neither a reporter nor a declared species.
LookupRaises(species_ids) ==
    \E i \in DOMAIN species_ids :
        species_ids[i] \notin reporter_ids /\ species_ids[i] \notin DOMAIN concepts

\* Mutant: the reporter ids are looked up like any other id.
_lookup_concepts_filtered_Unfiltered(species_ids) ==
    [i \in DOMAIN species_ids |-> concepts[species_ids[i]]]

RECURSIVE _lookup_concepts_filtered(_)
_lookup_concepts_filtered(species_ids) ==
    IF species_ids = <<>> THEN <<>>
    ELSE (IF Head(species_ids) \notin reporter_ids
          THEN <<concepts[Head(species_ids)]>> ELSE <<>>)
         \o _lookup_concepts_filtered(Tail(species_ids))

\* Mutant: the assignment rules are not substituted.
RateExpr_NoSubs(reaction) ==
    parse_expr(clean_formula(reaction.kinetic_law.formula), all_locals)

\* Lines 227-230: the cleaned formula parsed under all_locals, then the
\* assignment rules substituted.
RateExpr(reaction) ==
    subs(parse_expr(clean_formula(reaction.kinetic_law.formula), all_locals),
         assignment_rules)

\* Mutant: a product named by the rate law is no implicit modifier.
ImplicitModifiers_NotProducts(reaction) ==
    (variables_from_sympy_expr(RateExpr(reaction)) \cap all_species)
    \ (SeqToSet(reaction.reactants) \cup SeqToSet(reaction.modifiers)
        \cup SeqToSet(reaction.products))

\* Lines 232-238.
ImplicitModifiers(reaction) ==
    (variables_from_sympy_expr(RateExpr(reaction)) \cap all_species)
    \ (SeqToSet(reaction.reactants) \cup SeqToSet(reaction.modifiers))

\* Mutant: the modifier list is not extended.
ModifierSpecies_DeclaredOnly(reaction) == reaction.modifiers

\* Mutant: the implicit modifiers are put in front of the declared ones.
ModifierSpecies_ImplicitFirst(reaction) ==
    Sorted(ImplicitModifiers(reaction)) \o reaction.modifiers

\* Line 240: modifier_species += sorted(implicit_modifiers).
ModifierSpecies(reaction) == reaction.modifiers \o Sorted(ImplicitModifiers(reaction))

\* The exception one reaction raises, if any: rate_law is None at
\* rate_law.formula (line 227), parse_expr (line 227), the assertion of
\* variables_from_sympy_expr (line 232), concepts[species_id] (lines 242-244).
ReactionError(reaction) ==
    IF reaction.kinetic_law = NoKineticLaw THEN "AttributeError"
    ELSE IF ParseRaises(clean_formula(reaction.kinetic_law.formula)) THEN "ParseError"
    ELSE IF AssertExprFails(RateExpr(reaction)) THEN "AssertionError"
    ELSE IF \/ LookupRaises(ModifierSpecies(reaction))
            \/ LookupRaises(reaction.reactants)
            \/ LookupRaises(reaction.products)
    THEN "KeyError"
    ELSE NoError

\* What line 227 hands to parse_expr, when it is reached.
ParserInput(reaction) ==
    IF reaction.kinetic_law = NoKineticLaw THEN <<>>
    ELSE <<clean_formula(reaction.kinetic_law.formula)>>

\* The records handed to logger.debug.
ReactionEntry(rid) == [msg |-> "reaction", model_id |-> model_id, reaction |-> rid]
SameEntry(c) == [msg |-> "Same reactant and product", concept |-> c]
ModifiersEntry(ms) == [msg |-> "Modifiers", concepts |-> ms]
MissingEntry(rid) ==
    [msg |-> "missing reactants and products", model_id |-> model_id, reaction |-> rid]
MultiProductionEntry == [msg |-> "can not yet handle multiple outcome natural production"]
MultiDegradationEntry == [msg |-> "can not yet handle multiple outcome natural degradation"]
SkippingEntry(rid) ==
    [msg |-> "skipping reaction with multiple inputs/outputs",
     model_id |-> model_id, reaction |-> rid]
ParticipantEntry(what, i, c) == [msg |-> what, index |-> i, concept |-> c]
EmptyEntry == [msg |-> ""]

\* Lines 316-319: one record per participant, enumerate() counting from 0.
ParticipantEntries(what, cs) == [i \in DOMAIN cs |-> ParticipantEntry(what, i - 1, cs[i])]

Outcome(ts, lg) == [templates |-> ts, log |-> lg]

\* Mutant: any number of modifiers gives a ControlledConversion of the first.
ClassifyConversion_FirstControllerOnly(rid, reactants, products, modifiers, rate_expr) ==
    IF reactants[1].name # <<>> /\ ConceptEq(reactants[1], products[1])
    THEN Outcome(<<>>, <<ReactionEntry(rid), SameEntry(reactants[1]),
                         ModifiersEntry(modifiers)>>)
    ELSE IF Len(modifiers) = 0
    THEN Outcome(<<NaturalConversion(reactants[1], products[1], rate_expr)>>, <<>>)
    ELSE Outcome(<<ControlledConversion(reactants[1], products[1], modifiers[1],
                                        rate_expr)>>, <<>>)

\* Mutant: a self-loop is skipped only when it has no modifiers.
ClassifyConversion_SkipOnlyUnmodified(rid, reactants, products, modifiers, rate_expr) ==
    IF /\ reactants[1].name # <<>> /\ ConceptEq(reactants[1], products[1])
       /\ Len(modifiers) = 0
    THEN Outcome(<<>>, <<ReactionEntry(rid), SameEntry(reactants[1]),
                         ModifiersEntry(modifiers)>>)
    ELSE IF Len(modifiers) = 0
    THEN Outcome(<<NaturalConversion(reactants[1], products[1], rate_expr)>>, <<>>)
    ELSE IF Len(modifiers) = 1
    THEN Outcome(<<ControlledConversion(reactants[1], products[1], modifiers[1],
                                        rate_expr)>>, <<>>)
    ELSE Outcome(<<GroupedControlledConversion(reactants[1], products[1], modifiers,
                                               rate_expr)>>, <<>>)

\* Lines 248-286: one reactant and one product.
ClassifyConversion(rid, reactants, products, modifiers, rate_expr) ==
    IF reactants[1].name # <<>> /\ ConceptEq(reactants[1], products[1])
    THEN Outcome(<<>>, <<ReactionEntry(rid), SameEntry(reactants[1]),
                         ModifiersEntry(modifiers)>>)
    ELSE IF Len(modifiers) = 0
    THEN Outcome(<<NaturalConversion(reactants[1], products[1], rate_expr)>>, <<>>)
    ELSE IF Len(modifiers) = 1
    THEN Outcome(<<ControlledConversion(reactants[1], products[1], modifiers[1],
                                        rate_expr)>>, <<>>)
    ELSE Outcome(<<GroupedControlledConversion(reactants[1], products[1], modifiers,
                                               rate_expr)>>, <<>>)

\* Mutant: products without reactants give a NaturalProduction of the first
\* product, however many there are.
Classify_ProductionOfFirst(rid, reactants, products, modifiers, rate_expr) ==
    IF Len(reactants) = 1 /\ Len(products) = 1
    THEN ClassifyConversion(rid, reactants, products, modifiers, rate_expr)
    ELSE IF reactants = <<>> /\ products = <<>>
    THEN Outcome(<<>>, <<MissingEntry(rid)>>)
    ELSE IF products # <<>> /\ reactants = <<>>
    THEN Outcome(<<NaturalProduction(products[1], rate_expr)>>, <<>>)
    ELSE IF reactants # <<>> /\ products = <<>>
    THEN IF Len(reactants) = 1
         THEN Outcome(<<NaturalDegradation(reactants[1], rate_expr)>>, <<>>)
         ELSE Outcome(<<>>, <<MultiDegradationEntry>>)
    ELSE Outcome(<<>>, <<SkippingEntry(rid)>>
                       \o ParticipantEntries("reactant", reactants)
                       \o ParticipantEntries("products", products)
                       \o <<EmptyEntry>>)

\* Mutant: one reactant with one or more products is a conversion to the first.
Classify_ConversionToFirst(rid, reactants, products, modifiers, rate_expr) ==
    IF Len(reactants) = 1 /\ Len(products) >= 1
    THEN ClassifyConversion(rid, reactants, products, modifiers, rate_expr)
    ELSE IF reactants = <<>> /\ products = <<>>
    THEN Outcome(<<>>, <<MissingEntry(rid)>>)
    ELSE IF products # <<>> /\ reactants = <<>>
    THEN IF Len(products) = 1
         THEN Outcome(<<NaturalProduction(products[1], rate_expr)>>, <<>>)
         ELSE Outcome(<<>>, <<MultiProductionEntry>>)
    ELSE IF reactants # <<>> /\ products = <<>>
    THEN IF Len(reactants) = 1
         THEN Outcome(<<NaturalDegradation(reactants[1], rate_expr)>>, <<>>)
         ELSE Outcome(<<>>, <<MultiDegradationEntry>>)
    ELSE Outcome(<<>>, <<SkippingEntry(rid)>>
                       \o ParticipantEntries("reactant", reactants)
                       \o ParticipantEntries("products", products)
                       \o <<EmptyEntry>>)

\* Mutant: products without reactants give one NaturalProduction per product.
Classify_ProductionPerProduct(rid, reactants, products, modifiers, rate_expr) ==
    IF Len(reactants) = 1 /\ Len(products) = 1
    THEN ClassifyConversion(rid, reactants, products, modifiers, rate_expr)
    ELSE IF reactants = <<>> /\ products = <<>>
    THEN Outcome(<<>>, <<MissingEntry(rid)>>)
    ELSE IF products # <<>> /\ reactants = <<>>
    THEN Outcome([j \in DOMAIN products |-> NaturalProduction(products[j], rate_expr)],
                 <<>>)
    ELSE IF reactants # <<>> /\ products = <<>>
    THEN IF Len(reactants) = 1
         THEN Outcome(<<NaturalDegradation(reactants[1], rate_expr)>>, <<>>)
         ELSE Outcome(<<>>, <<MultiDegradationEntry>>)
    ELSE Outcome(<<>>, <<SkippingEntry(rid)>>
                       \o ParticipantEntries("reactant", reactants)
                       \o ParticipantEntries("products", products)
                       \o <<EmptyEntry>>)

\* Mutant: a production or a degradation with modifiers is left out.
Classify_UnmodifiedSidesOnly(rid, reactants, products, modifiers, rate_expr) ==
    IF Len(reactants) = 1 /\ Len(products) = 1
    THEN ClassifyConversion(rid, reactants, products, modifiers, rate_expr)
    ELSE IF reactants = <<>> /\ products = <<>>
    THEN Outcome(<<>>, <<MissingEntry(rid)>>)
    ELSE IF products # <<>> /\ reactants = <<>>
    THEN IF Len(products) = 1
         THEN IF modifiers = <<>>
              THEN Outcome(<<NaturalProduction(products[1], rate_expr)>>, <<>>)
              ELSE Outcome(<<>>, <<>>)
         ELSE Outcome(<<>>, <<MultiProductionEntry>>)
    ELSE IF reactants # <<>> /\ products = <<>>
    THEN IF Len(reactants) = 1
         THEN IF modifiers = <<>>
              THEN Outcome(<<NaturalDegradation(reactants[1], rate_expr)>>, <<>>)
              ELSE Outcome(<<>>, <<>>)
         ELSE Outcome(<<>>, <<MultiDegradationEntry>>)
    ELSE Outcome(<<>>, <<SkippingEntry(rid)>>
                       \o ParticipantEntries("reactant", reactants)
                       \o ParticipantEntries("products", products)
                       \o <<EmptyEntry>>)

\* Lines 248-321: the templates and the log records of one reaction.
Classify(rid, reactants, products, modifiers, rate_expr) ==
    IF Len(reactants) = 1 /\ Len(products) = 1
    THEN ClassifyConversion(rid, reactants, products, modifiers, rate_expr)
    ELSE IF reactants = <<>> /\ products = <<>>
    THEN Outcome(<<>>, <<MissingEntry(rid)>>)
    ELSE IF products # <<>> /\ reactants = <<>>
    THEN IF Len(products) = 1
         THEN Outcome(<<NaturalProduction(products[1], rate_expr)>>, <<>>)
         ELSE Outcome(<<>>, <<MultiProductionEntry>>)
    ELSE IF reactants # <<>> /\ products = <<>>
    THEN IF Len(reactants) = 1
         THEN Outcome(<<NaturalDegradation(reactants[1], rate_expr)>>, <<>>)
         ELSE Outcome(<<>>, <<MultiDegradationEntry>>)
    ELSE Outcome(<<>>, <<SkippingEntry(rid)>>
                       \o ParticipantEntries("reactant", reactants)
                       \o ParticipantEntries("products", products)
                       \o <<EmptyEntry>>)

\* The body of the loop of lines 217-321 for a reaction that raises nothing.
ReactionOutcome(reaction) ==
    Classify(reaction.id,
             _lookup_concepts_filtered(reaction.reactants),
             _lookup_concepts_filtered(reaction.products),
             _lookup_concepts_filtered(ModifierSpecies(reaction)),
             RateExpr(reaction))

\* ------------------------------------------------------------------ actions
Init ==
    /\ pc = "start"
    /\ doc \in Documents
    /\ \E a \in CallArgs : model_id = a.model_id /\ reporter_ids = a.reporter_ids
    /\ reactions = <<>>
    /\ concepts = EmptyDict
    /\ all_species = {}
    /\ all_parameters = EmptyDict
    /\ parameter_symbols = EmptyDict
    /\ compartment_symbols = EmptyDict
    /\ function_lambdas = EmptyDict
    /\ all_locals = EmptyDict
    /\ assignment_rules = EmptyDict
    /\ templates = <<>>
    /\ log = <<>>
    /\ steps = <<>>
    /\ parser_input = <<>>
    /\ result = NoResult
    /\ error = NoError
    /\ converter = NoConverter
    /\ run = 1
    /\ previous = NoResult
    /\ loads = 0
    /\ call = NoCall
    /\ returned = NoResult
    /\ generator = NoGenerator

\* Lines 152-153 and 166-167.  A document without a model has None for its
\* model, and sbml_model.getListOfSpecies() (line 396) raises AttributeError.
ExtractConcepts ==
    /\ pc = "start"
    /\ IF doc = NoModel
       THEN /\ pc' = "raised"
            /\ error' = "AttributeError"
            /\ UNCHANGED <<concepts, log, converter, loads>>
       ELSE /\ LET e == _extract_concepts(doc, model_id)
               IN  concepts' = e.concepts /\ log' = log \o e.log
            /\ LET c == ConverterAfterSpecies([converter |-> converter, loads |-> loads],
                                              doc.species)
               IN  converter' = c.converter /\ loads' = c.loads
            /\ pc' = "tables"
            /\ error' = error
    /\ UNCHANGED <<doc, model_id, reporter_ids, reactions, all_species, all_parameters,
                   parameter_symbols, compartment_symbols, function_lambdas,
                   all_locals, assignment_rules, templates, steps, parser_input,
                   result, run, previous, call, returned, generator>>

\* Mutant: the template list is not created anew (a list that outlives the
\* call).
BuildTables_KeepTemplates ==
    /\ pc = "tables"
    /\ templates' = templates
    /\ all_species' = {doc.species[i].id : i \in DOMAIN doc.species}
    /\ all_parameters' = AllParameters(doc)
    /\ parameter_symbols' = ParameterSymbols(doc)
    /\ compartment_symbols' = CompartmentSymbols(doc)
    /\ pc' = "functions"
    /\ UNCHANGED <<doc, model_id, reporter_ids, reactions, concepts, function_lambdas,
                   all_locals, assignment_rules, log, steps, parser_input, result,
                   error, converter, run, previous,
                   loads, call, returned, generator>>

\* Lines 175-191.
BuildTables ==
    /\ pc = "tables"
    /\ templates' = <<>>
    /\ all_species' = {doc.species[i].id : i \in DOMAIN doc.species}
    /\ all_parameters' = AllParameters(doc)
    /\ parameter_symbols' = ParameterSymbols(doc)
    /\ compartment_symbols' = CompartmentSymbols(doc)
    /\ pc' = "functions"
    /\ UNCHANGED <<doc, model_id, reporter_ids, reactions, concepts, function_lambdas,
                   all_locals, assignment_rules, log, steps, parser_input, result,
                   error, converter, run, previous,
                   loads, call, returned, generator>>

\* Lines 193-209.
CompileFunctions ==
    /\ pc = "functions"
    /\ LET c == FunctionLoop(doc.function_definitions, EmptyDict, <<>>)
       IN  /\ function_lambdas' = c.lambdas
           /\ parser_input' = parser_input \o c.parsed
           /\ error' = c.error
           /\ IF c.error # NoError
              THEN pc' = "raised" /\ all_locals' = all_locals
              ELSE /\ pc' = "rules"
                   /\ all_locals' = AllLocals(parameter_symbols, compartment_symbols,
                                              c.lambdas)
    /\ UNCHANGED <<doc, model_id, reporter_ids, reactions, concepts, all_species,
                   all_parameters, parameter_symbols, compartment_symbols,
                   assignment_rules, templates, log, steps, result, converter, run,
                   previous,
                   loads, call, returned, generator>>

\* Lines 211-215.
BuildRules ==
    /\ pc = "rules"
    /\ LET r == RuleLoop(doc.rules, all_locals, EmptyDict, <<>>)
       IN  /\ assignment_rules' = r.rules
           /\ parser_input' = parser_input \o r.parsed
           /\ error' = r.error
           /\ pc' = IF r.error # NoError THEN "raised" ELSE "loop"
    /\ UNCHANGED <<doc, model_id, reporter_ids, reactions, concepts, all_species,
                   all_parameters, parameter_symbols, compartment_symbols,
                   function_lambdas, all_locals, templates, log, steps, result,
                   converter, run, previous,
                   loads, call, returned, generator>>

\* The reactions the loop may read next: a first call reads a reaction the
\* document holds, a second call on the document reads the ones the first read.
NextReactions(pool) ==
    IF Len(steps) < Len(reactions) THEN {reactions[Len(steps) + 1]}
    ELSE IF run = 1 /\ Len(reactions) < MaxReactions THEN pool
    ELSE {}

\* Lines 217-321: the loop's body for one reaction.
ReadReaction(reaction) ==
    /\ reactions' = IF Len(steps) < Len(reactions) THEN reactions
                    ELSE Append(reactions, reaction)
    /\ parser_input' = parser_input \o ParserInput(reaction)
    /\ LET e == ReactionError(reaction)
       IN  IF e # NoError
           THEN /\ pc' = "raised"
                /\ error' = e
                /\ steps' = Append(steps, [raised |-> TRUE, templates |-> <<>>,
                                           log |-> <<>>])
                /\ UNCHANGED <<templates, log>>
           ELSE LET o == ReactionOutcome(reaction)
                IN  /\ templates' = templates \o o.templates
                    /\ log' = log \o o.log
                    /\ steps' = Append(steps, [raised |-> FALSE,
                                               templates |-> o.templates,
                                               log |-> o.log])
                    /\ UNCHANGED <<pc, error>>

\* The loop's body for the document's next reaction.
ProcessReaction ==
    /\ pc = "loop"
    /\ \E reaction \in NextReactions(ReactionPool(Len(reactions) + 1)) :
          ReadReaction(reaction)
    /\ UNCHANGED <<doc, model_id, reporter_ids, concepts, all_species, all_parameters,
                   parameter_symbols, compartment_symbols, function_lambdas,
                   all_locals, assignment_rules, result, converter, run, previous,
                   loads, call, returned, generator>>

\* Lines 326-328, once the loop has read the document's last reaction.
Return ==
    /\ pc = "loop"
    /\ Len(steps) = Len(reactions)
    /\ result' = TemplateModel(templates, all_parameters)
    /\ pc' = "returned"
    /\ UNCHANGED <<doc, model_id, reporter_ids, reactions, concepts, all_species,
                   all_parameters, parameter_symbols, compartment_symbols,
                   function_lambdas, all_locals, assignment_rules, templates, log,
                   steps, parser_input, error, converter, run, previous,
                   loads, call, returned, generator>>

Next ==
    \/ ExtractConcepts
    \/ BuildTables
    \/ CompileFunctions
    \/ BuildRules
    \/ ProcessReaction
    \/ Return

Spec == Init /\ [][Next]_vars

\* ------------------------------------------- two calls on a document variant
InitVariants ==
    /\ pc = "start"
    /\ doc \in VariantDocuments
    /\ \E a \in VariantCallArgs : model_id = a.model_id /\ reporter_ids = a.reporter_ids
    /\ reactions = <<>>
    /\ concepts = EmptyDict
    /\ all_species = {}
    /\ all_parameters = EmptyDict
    /\ parameter_symbols = EmptyDict
    /\ compartment_symbols = EmptyDict
    /\ function_lambdas = EmptyDict
    /\ all_locals = EmptyDict
    /\ assignment_rules = EmptyDict
    /\ templates = <<>>
    /\ log = <<>>
    /\ steps = <<>>
    /\ parser_input = <<>>
    /\ result = NoResult
    /\ error = NoError
    /\ converter = NoConverter
    /\ run = 1
    /\ previous = NoResult
    /\ loads = 0
    /\ call = NoCall
    /\ returned = NoResult
    /\ generator = NoGenerator

ProcessVariantReaction ==
    /\ pc = "loop"
    /\ \E reaction \in NextReactions(VariantReactionPool(Len(reactions) + 1)) :
          ReadReaction(reaction)
    /\ UNCHANGED <<doc, model_id, reporter_ids, concepts, all_species, all_parameters,
                   parameter_symbols, compartment_symbols, function_lambdas,
                   all_locals, assignment_rules, result, converter, run, previous,
                   loads, call, returned, generator>>

\* The caller calls template_model_from_sbml_model again, on the same document
\* with the same arguments.  What the first call left in its local variables
\* is still there, for the second call to overwrite; the Converter and the
\* logger are the module's.
CallAgain ==
    /\ pc = "returned"
    /\ run = 1
    /\ run' = 2
    /\ previous' = result
    /\ result' = NoResult
    /\ steps' = <<>>
    /\ pc' = "start"
    /\ UNCHANGED <<doc, model_id, reporter_ids, reactions, concepts, all_species,
                   all_parameters, parameter_symbols, compartment_symbols,
                   function_lambdas, all_locals, assignment_rules, templates, log,
                   parser_input, error, converter,
                   loads, call, returned, generator>>

NextVariants ==
    \/ ExtractConcepts
    \/ BuildTables
    \/ CompileFunctions
    \/ BuildRules
    \/ ProcessVariantReaction
    \/ Return
    \/ CallAgain

SpecVariants == InitVariants /\ [][NextVariants]_vars

\* ------------------------------------------------------ TriplesGenerator
\* The number of templates of a template model handed to TriplesGenerator.
MaxTemplates == 2

\* Concepts of the models handed to TriplesGenerator, each with one
\* identifier; the last one is another concept grounded like the second.
ConceptSus == Concept(<<"Susceptible">>, [p \in {"ido"} |-> <<"0000514">>], EmptyDict)
ConceptInf == Concept(<<"Infected">>, [p \in {"ido"} |-> <<"0000511">>], EmptyDict)
ConceptRec == Concept(<<"Recovered">>, [p \in {"ncit"} |-> <<"C2">>], EmptyDict)
ConceptInfAgain ==
    Concept(<<"Infectious">>, [p \in {"ido"} |-> <<"0000511">>],
            [p \in {"property"} |-> <<"ncit", ":", "C1">>])

TriplesTemplatePool ==
    { NaturalConversion(ConceptSus, ConceptInf, Symbol(IdBeta)),
      NaturalConversion(ConceptInf, ConceptRec, Symbol(IdGamma)),
      NaturalConversion(ConceptInf, ConceptInfAgain, Symbol(IdGamma)),
      NaturalConversion(ConceptInf, ConceptSus, Symbol(IdGamma)),
      ControlledConversion(ConceptSus, ConceptInf, ConceptInf, Symbol(IdBeta)),
      ControlledConversion(ConceptSus, ConceptInf, ConceptRec, Symbol(IdBeta)),
      ControlledConversion(ConceptInf, ConceptInfAgain, ConceptInf, Symbol(IdBeta)),
      ControlledConversion(ConceptSus, ConceptRec, ConceptInfAgain, Symbol(IdBeta)),
      GroupedControlledConversion(ConceptSus, ConceptInf, <<ConceptInf, ConceptRec>>,
                                  Symbol(IdBeta)),
      NaturalProduction(ConceptInf, Symbol(IdBeta)),
      NaturalDegradation(ConceptRec, Symbol(IdGamma)) }

\* The template lists of at most n templates.
RECURSIVE TemplateLists(_)
TemplateLists(n) ==
    IF n = 0 THEN {<<>>}
    ELSE TemplateLists(n - 1)
         \cup {Append(ts, t) : ts \in {l \in TemplateLists(n - 1) : Len(l) = n - 1},
                              t \in TriplesTemplatePool}

\* isinstance(template, cls) for the template classes of mira.metamodel: the
\* five kinds are separate classes, none a subclass of another.
IsInstance(template, cls) == template.type = cls

\* Concept.get_curie(config=config) for a concept with one identifier: the
\* prefix and the local identifier.
get_curie(concept) ==
    LET prefix == CHOOSE p \in DOMAIN concept.identifiers : TRUE
    IN  <<prefix, concept.identifiers[prefix]>>

\* bioregistry's curie_to_str(prefix, identifier): 'prefix:identifier'.
curie_to_str(prefix, identifier) == <<prefix, ":">> \o identifier
\* manager.parse_curie(curie)[0]: the prefix of 'prefix:identifier'.
ParseCuriePrefix(curie) == Head(curie)

Predicate == <<"ro", ":", "0002323">>
Triple(sub, pred, obj) == [sub |-> sub, pred |-> pred, obj |-> obj]
as_tuple(triple) == <<triple.sub, triple.pred, triple.obj>>
_prefixes(triple) ==
    {ParseCuriePrefix(triple.sub), ParseCuriePrefix(triple.obj),
     ParseCuriePrefix(triple.pred)}

\* Lines 102-107 and 110-113: the triple of two concepts.
TripleOf(a, b) ==
    Triple(curie_to_str(get_curie(a)[1], get_curie(a)[2]), Predicate,
           curie_to_str(get_curie(b)[1], get_curie(b)[2]))

\* Mutant: a template of another kind yields nothing.
iter_triples_OthersYieldNothing(template) ==
    IF IsInstance(template, "ControlledConversion")
    THEN [error |-> NoError,
          triples |-> <<TripleOf(template.subject, template.outcome),
                        TripleOf(template.subject, template.controller),
                        TripleOf(template.outcome, template.controller)>>]
    ELSE IF IsInstance(template, "NaturalConversion")
    THEN [error |-> NoError,
          triples |-> <<TripleOf(template.subject, template.outcome)>>]
    ELSE [error |-> NoError, triples |-> <<>>]

\* Mutant: the controller comes first in the triples it is part of.
iter_triples_ControllerFirst(template) ==
    IF IsInstance(template, "ControlledConversion")
    THEN [error |-> NoError,
          triples |-> <<TripleOf(template.subject, template.outcome),
                        TripleOf(template.controller, template.subject),
                        TripleOf(template.controller, template.outcome)>>]
    ELSE IF IsInstance(template, "NaturalConversion")
    THEN [error |-> NoError,
          triples |-> <<TripleOf(template.subject, template.outcome)>>]
    ELSE [error |-> "TypeError", triples |-> <<>>]

\* Lines 97-115: what iterating iter_triples(template) yields, in order, and
\* the exception it ends with.  itt.combinations of (subject, outcome,
\* controller) by 2 gives (subject, outcome), (subject, controller),
\* (outcome, controller).
iter_triples(template) ==
    IF IsInstance(template, "ControlledConversion")
    THEN [error |-> NoError,
          triples |-> <<TripleOf(template.subject, template.outcome),
                        TripleOf(template.subject, template.controller),
                        TripleOf(template.outcome, template.controller)>>]
    ELSE IF IsInstance(template, "NaturalConversion")
    THEN [error |-> NoError,
          triples |-> <<TripleOf(template.subject, template.outcome)>>]
    ELSE [error |-> "TypeError", triples |-> <<>>]

\* Lines 55-58, the body of the inner loop, over the triples in the order
\* they are yielded.
RECURSIVE StoreTriples(_, _)
StoreTriples(triples, yielded) ==
    IF yielded = <<>> THEN triples
    ELSE LET triple == Head(yielded)
         IN  StoreTriples(IF triple.sub = triple.obj THEN triples
                          ELSE Put(triples, as_tuple(triple), triple),
                          Tail(yielded))

\* The TriplesGenerator whose __init__ was called with a template model:
\* its fields, the template the loop is at, what iter_triples yielded for
\* each template so far, and the exception that ended __init__.
CalledGenerator(ts) ==
    [state |-> "called", model |-> TemplateModel(ts, EmptyDict), triples |-> EmptyDict,
     prefixes |-> {}, index |-> 0, yielded |-> <<>>, error |-> NoError]

InitTriples ==
    /\ pc = "idle"
    /\ doc = NoModel
    /\ model_id = NoModelId
    /\ reporter_ids = {}
    /\ reactions = <<>>
    /\ concepts = EmptyDict
    /\ all_species = {}
    /\ all_parameters = EmptyDict
    /\ parameter_symbols = EmptyDict
    /\ compartment_symbols = EmptyDict
    /\ function_lambdas = EmptyDict
    /\ all_locals = EmptyDict
    /\ assignment_rules = EmptyDict
    /\ templates = <<>>
    /\ log = <<>>
    /\ steps = <<>>
    /\ parser_input = <<>>
    /\ result = NoResult
    /\ error = NoError
    /\ converter = NoConverter
    /\ run = 1
    /\ previous = NoResult
    /\ loads = 0
    /\ call = NoCall
    /\ returned = NoResult
    /\ generator \in {CalledGenerator(ts) : ts \in TemplateLists(MaxTemplates)}

extraction == <<pc, doc, model_id, reporter_ids, reactions, concepts, all_species,
                all_parameters, parameter_symbols, compartment_symbols,
                function_lambdas, all_locals, assignment_rules, templates, log,
                steps, parser_input, result, error, converter, run, previous,
                loads>>

\* Lines 51-53: super().__init__(model), self.metaregistry, self.triples = {}.
StartGenerator ==
    /\ generator.state = "called"
    /\ generator' = [generator EXCEPT !.state = "loop", !.triples = EmptyDict,
                                      !.index = 1]
    /\ UNCHANGED <<extraction, call, returned>>

\* Lines 54-58: the next template of the model.
NextTemplate ==
    /\ generator.state = "loop"
    /\ generator.index <= Len(generator.model.templates)
    /\ LET y == iter_triples(generator.model.templates[generator.index])
       IN  generator' =
               IF y.error # NoError
               THEN [generator EXCEPT !.state = "raised", !.error = y.error]
               ELSE [generator EXCEPT
                        !.triples = StoreTriples(generator.triples, y.triples),
                        !.yielded = Append(generator.yielded, y.triples),
                        !.index = generator.index + 1]
    /\ UNCHANGED <<extraction, call, returned>>

\* Lines 59-63, after the last template.
CollectPrefixes ==
    /\ generator.state = "loop"
    /\ generator.index > Len(generator.model.templates)
    /\ generator' =
           [generator EXCEPT
               !.state = "constructed",
               !.prefixes = UNION {_prefixes(generator.triples[key]) :
                                      key \in DOMAIN generator.triples}]
    /\ UNCHANGED <<extraction, call, returned>>

NextTriples ==
    \/ StartGenerator
    \/ NextTemplate
    \/ CollectPrefixes

SpecTriples == InitTriples /\ [][NextTriples]_vars

\* ------------------------------------------------------ the entry points
\* What a caller hands to an entry point: the path of a file, an open binary
\* file, a text.  A path names a file with content; an open file gives its
\* content to read(); content decodes to a text; libsbml reads the text into
\* an SBMLDocument with its model.
SbmlText(sbml_model) == [k |-> "str", sbml |-> sbml_model]
Encoded(text) == [k |-> "bytes", utf8 |-> text]
OpenFile(content) == [k |-> "file", content |-> content]
FilePath(content) == [k |-> "path", file |-> content]
SBMLDocument(sbml_model) == [k |-> "SBMLDocument", model |-> sbml_model]

\* open(file_path, 'rb'), file.read(), bytes.decode("utf-8"),
\* SBMLReader().readSBMLFromString(s).
open(file_path) == OpenFile(file_path.file)
read(file) == file.content
decode(content) == content.utf8
readSBMLFromString(s) == SBMLDocument(s.sbml)

ParseResult(template_model) == [k |-> "ParseResult", template_model |-> template_model]

\* The bodies of a function definition f(x, y): names, literals, one operator
\* over them, a node with a name and an operator, and operators nested to the
\* left and to the right.
AstLeaves == {AstName(IdX), AstName(IdY), AstValue(Real(2)), AstValue(NaN)}
AstOperators == {"times", "plus", "minus", "divide", "power"}
BodyPool ==
    AstLeaves
    \cup {AstOp(o, a, b) : o \in AstOperators, a \in AstLeaves, b \in AstLeaves}
    \cup {AstNamedOp(IdY, "times", AstName(IdX), AstValue(Real(2))),
          AstNamedOp(IdX, "power", AstName(IdX), AstName(IdY))}
    \cup {AstOp(o, AstOp(p, AstName(IdX), b), AstName(IdY)) :
             o \in {"minus", "divide"}, p \in {"plus", "minus", "power"},
             b \in {AstName(IdY), AstValue(Real(2))}}
    \cup {AstOp("minus", AstName(IdX),
                AstOp("minus", AstName(IdY), AstValue(Real(2))))}

FunG == FunDef(IdG, <<IdX, IdY>>, AstOp("times", AstName(IdX), AstName(IdY)))
EntryParameters == <<Param(IdBeta, 2), Param(IdLambdaRate, 4)>>
EntryDocuments ==
    { DocumentOf(SpeciesList, EntryParameters, VariantCompartments,
                 <<FunDef(IdF, <<IdX, IdY>>, body), FunG>>, <<>>) :
        body \in BodyPool }

\* The calls: template_model_from_sbml_file_path with a path,
\* template_model_from_sbml_file with an open file and with a path,
\* template_model_from_sbml_string with a text; model_id and reporter_ids
\* left out (None) or given.
EntryCalls ==
    { [fn |-> c[1], arg |-> c[2], passed |-> c[2], model_id |-> a[1],
       reporter_ids |-> a[2]] :
        c \in UNION { { <<"file_path", FilePath(Encoded(SbmlText(d)))>>,
                        <<"file", OpenFile(Encoded(SbmlText(d)))>>,
                        <<"file", FilePath(Encoded(SbmlText(d)))>>,
                        <<"string", SbmlText(d)>> } : d \in EntryDocuments },
        a \in { <<NoModelId, <<>>>>, <<"BIOMD1", <<IdRec>>>> } }

EntrySidesPool == { <<<<>>, <<IdInf>>>>, <<<<IdSus>>, <<IdInf>>>> }
EntryLawsPool ==
    { KineticLaw(Name(IdLambdaRate)), KineticLaw(Name(IdF)),
      KineticLaw(Times(Times(Name(IdBeta), Lit(2)), Name(IdInf))) }
EntryReactionPool(n) ==
    { Reaction(n, sides[1], sides[2], <<>>, law) :
        sides \in EntrySidesPool, law \in EntryLawsPool }

InitEntry ==
    /\ call \in EntryCalls
    /\ pc = call.fn
    /\ doc = NoModel
    /\ model_id = NoModelId
    /\ reporter_ids = {}
    /\ reactions = <<>>
    /\ concepts = EmptyDict
    /\ all_species = {}
    /\ all_parameters = EmptyDict
    /\ parameter_symbols = EmptyDict
    /\ compartment_symbols = EmptyDict
    /\ function_lambdas = EmptyDict
    /\ all_locals = EmptyDict
    /\ assignment_rules = EmptyDict
    /\ templates = <<>>
    /\ log = <<>>
    /\ steps = <<>>
    /\ parser_input = <<>>
    /\ result = NoResult
    /\ error = NoError
    /\ converter = NoConverter
    /\ run = 1
    /\ previous = NoResult
    /\ loads = 0
    /\ returned = NoResult
    /\ generator = NoGenerator

locals == <<doc, model_id, reporter_ids, reactions, concepts, all_species,
            all_parameters, parameter_symbols, compartment_symbols,
            function_lambdas, all_locals, assignment_rules, templates, log,
            steps, parser_input, result, converter, run, previous, loads>>

\* Lines 112-115: open(file_path, 'rb') raises TypeError for what is neither
\* a path nor a file descriptor.
template_model_from_sbml_file_path ==
    /\ pc = "file_path"
    /\ IF call.passed.k # "path"
       THEN pc' = "raised" /\ error' = "TypeError" /\ call' = call
       ELSE /\ pc' = "file"
            /\ call' = [call EXCEPT !.passed = open(call.passed)]
            /\ error' = error
    /\ UNCHANGED <<locals, returned, generator>>

\* Lines 125-127: file.read() raises AttributeError for a str.
template_model_from_sbml_file ==
    /\ pc = "file"
    /\ IF call.passed.k # "file"
       THEN pc' = "raised" /\ error' = "AttributeError" /\ call' = call
       ELSE /\ pc' = "string"
            /\ call' = [call EXCEPT !.passed = decode(read(call.passed))]
            /\ error' = error
    /\ UNCHANGED <<locals, returned, generator>>

\* Lines 137-140.
template_model_from_sbml_string ==
    /\ pc = "string"
    /\ pc' = "document"
    /\ call' = [call EXCEPT !.passed = readSBMLFromString(call.passed)]
    /\ UNCHANGED <<locals, error, returned, generator>>

\* Lines 152-156 and 166: sbml_document.model, model_id and reporter_ids
\* become the arguments of template_model_from_sbml_model, which makes a set
\* of reporter_ids.
template_model_from_sbml_document ==
    /\ pc = "document"
    /\ doc' = call.passed.model
    /\ model_id' = call.model_id
    /\ reporter_ids' = SeqToSet(call.reporter_ids)
    /\ pc' = "start"
    /\ UNCHANGED <<reactions, concepts, all_species, all_parameters,
                   parameter_symbols, compartment_symbols, function_lambdas,
                   all_locals, assignment_rules, templates, log, steps,
                   parser_input, result, error, converter, run, previous, loads,
                   call, returned, generator>>

ProcessEntryReaction ==
    /\ pc = "loop"
    /\ \E reaction \in NextReactions(EntryReactionPool(Len(reactions) + 1)) :
          ReadReaction(reaction)
    /\ UNCHANGED <<doc, model_id, reporter_ids, concepts, all_species, all_parameters,
                   parameter_symbols, compartment_symbols, function_lambdas,
                   all_locals, assignment_rules, result, converter, run, previous,
                   loads, call, returned, generator>>

\* Line 328 and the return statements of the entry points (lines 113, 125,
\* 138, 152): the ParseResult goes back to the caller as it is.
ReturnToCaller ==
    /\ pc = "returned"
    /\ call # NoCall
    /\ returned' = ParseResult(result)
    /\ pc' = "done"
    /\ UNCHANGED <<locals, error, call, generator>>

NextEntry ==
    \/ template_model_from_sbml_file_path
    \/ template_model_from_sbml_file
    \/ template_model_from_sbml_string
    \/ template_model_from_sbml_document
    \/ ExtractConcepts
    \/ BuildTables
    \/ CompileFunctions
    \/ BuildRules
    \/ ProcessEntryReaction
    \/ Return
    \/ ReturnToCaller

SpecEntry == InitEntry /\ [][NextEntry]_vars

\* ------------------------------------------------------------------- claims
\* What the claims speak of: the reactions that were processed without an
\* exception, and their participant lists as the classification sees them.
Processed == {i \in DOMAIN steps : ~steps[i].raised}
Kept(species_ids) == SelectSeq(species_ids, LAMBDA s : s \notin reporter_ids)
ConceptsOf(species_ids) == [j \in DOMAIN species_ids |-> concepts[species_ids[j]]]
Reactants(i) == Kept(reactions[i].reactants)
Products(i) == Kept(reactions[i].products)
Modifiers(i) == Kept(ModifierSpecies(reactions[i]))
OneToOne(i) == Len(Reactants(i)) = 1 /\ Len(Products(i)) = 1
SelfLoop(i) ==
    /\ OneToOne(i)
    /\ concepts[Reactants(i)[1]].name # <<>>
    /\ ConceptEq(concepts[Reactants(i)[1]], concepts[Products(i)[1]])
Emitted(i) == steps[i].templates
ConversionTypes ==
    {"NaturalConversion", "ControlledConversion", "GroupedControlledConversion"}

\* C1: a reaction with one reactant and one product (after reporter exclusion)
\* that is not skipped as a self-loop emits exactly one template; its variant
\* follows the number of modifiers (declared and implicit, reporters left
\* out): none NaturalConversion, one ControlledConversion, two or more
\* GroupedControlledConversion; subject, outcome and controller(s) are the
\* reactant, the product and the modifiers in modifier-list order.
C1_VariantByModifierCount ==
    \A i \in Processed :
        (OneToOne(i) /\ ~SelfLoop(i)) =>
            /\ Len(Emitted(i)) = 1
            /\ LET t == Emitted(i)[1]
                   m == Modifiers(i)
               IN  /\ t.subject = concepts[Reactants(i)[1]]
                   /\ t.outcome = concepts[Products(i)[1]]
                   /\ Len(m) = 0 => t.type = "NaturalConversion"
                   /\ Len(m) = 1 => /\ t.type = "ControlledConversion"
                                    /\ t.controller = concepts[m[1]]
                   /\ Len(m) >= 2 => /\ t.type = "GroupedControlledConversion"
                                     /\ t.controllers = ConceptsOf(m)
                   /\ \E j \in DOMAIN templates : templates[j] = t

\* A grouped conversion with a declared and an implicit controller was emitted.
C1_Witness ==
    \E i \in Processed :
        /\ OneToOne(i) /\ ~SelfLoop(i)
        /\ Len(Emitted(i)) = 1
        /\ Emitted(i)[1].type = "GroupedControlledConversion"
        /\ Len(reactions[i].modifiers) = 1
        /\ Len(Emitted(i)[1].controllers) = 2

\* C2, as stated: a self-loop (one reactant, one product, the reactant's
\* concept named and equal to the product's) is skipped when it has no
\* modifiers and is emitted as a ControlledConversion or a
\* GroupedControlledConversion when it has modifiers.
C2_SkippedOnlyWithoutModifiers ==
    \A i \in Processed :
        SelfLoop(i) =>
            /\ Len(Modifiers(i)) = 0 => Emitted(i) = <<>>
            /\ Len(Modifiers(i)) >= 1 =>
                  /\ Len(Emitted(i)) = 1
                  /\ Emitted(i)[1].type \in
                        {"ControlledConversion", "GroupedControlledConversion"}

\* C2, amended: a self-loop is skipped whatever its modifiers; it emits no
\* template and logs the reaction, the concept and the modifier list.
C2_SelfLoopAlwaysSkipped ==
    \A i \in Processed :
        SelfLoop(i) =>
            /\ Emitted(i) = <<>>
            /\ steps[i].log = <<ReactionEntry(reactions[i].id),
                                SameEntry(concepts[Reactants(i)[1]]),
                                ModifiersEntry(ConceptsOf(Modifiers(i)))>>

\* A self-loop with a modifier was read and nothing was emitted for it.
C2_Witness ==
    \E i \in Processed :
        SelfLoop(i) /\ Len(Modifiers(i)) >= 1 /\ Emitted(i) = <<>>

\* C3: one reactant, one product, no modifiers, the reactant's concept not the
\* product's: exactly one template, a NaturalConversion, whose rate law is the
\* cleaned formula parsed and then substituted with the assignment rules.
C3_NaturalConversionRate ==
    \A i \in Processed :
        (/\ OneToOne(i)
         /\ Len(Modifiers(i)) = 0
         /\ ~ConceptEq(concepts[Reactants(i)[1]], concepts[Products(i)[1]])) =>
            /\ Len(Emitted(i)) = 1
            /\ Emitted(i)[1].type = "NaturalConversion"
            /\ Emitted(i)[1].rate_law =
                  subs(parse_expr(clean_formula(reactions[i].kinetic_law.formula),
                                  all_locals),
                       assignment_rules)

\* A NaturalConversion whose rate law the substitution changed.
C3_Witness ==
    \E i \in Processed :
        /\ Len(Emitted(i)) = 1
        /\ Emitted(i)[1].type = "NaturalConversion"
        /\ ~ConceptEq(Emitted(i)[1].subject, Emitted(i)[1].outcome)
        /\ Emitted(i)[1].rate_law #
              parse_expr(clean_formula(reactions[i].kinetic_law.formula), all_locals)

\* The controllers a template carries.
Controllers(t) ==
    CASE t.type = "ControlledConversion" -> <<t.controller>>
      [] t.type = "GroupedControlledConversion" -> t.controllers
      [] OTHER -> <<>>
\* The declared species a rate law names that the reaction lists neither as
\* reactant nor as modifier.
Unlisted(reaction, rate_law) ==
    (variables_from_sympy_expr(rate_law) \cap all_species)
    \ (SeqToSet(reaction.reactants) \cup SeqToSet(reaction.modifiers))

\* C4, as stated: whatever template a reaction results in, each species its
\* rate law names beyond the reactants and the modifiers is a controller of
\* it, and it has as many controllers as declared modifiers plus those species.
C4_ImplicitModifiersAreControllers ==
    \A i \in Processed :
        Len(Emitted(i)) = 1 =>
            LET t == Emitted(i)[1]
                n == Unlisted(reactions[i], t.rate_law)
            IN  /\ \A s \in n : concepts[s] \in SeqToSet(Controllers(t))
                /\ Len(Controllers(t)) = Len(reactions[i].modifiers) + Cardinality(n)

\* C4, amended: in a conversion template (the three variants with a subject
\* and an outcome) each such species that is no reporter is a controller, and
\* the controllers are as many as the declared modifiers that are no reporters
\* plus those species.
C4_ImplicitModifiersOfConversions ==
    \A i \in Processed :
        (Len(Emitted(i)) = 1 /\ Emitted(i)[1].type \in ConversionTypes) =>
            LET t == Emitted(i)[1]
                n == Unlisted(reactions[i], t.rate_law) \ reporter_ids
            IN  /\ \A s \in n : concepts[s] \in SeqToSet(Controllers(t))
                /\ Len(Controllers(t)) =
                      Len(Kept(reactions[i].modifiers)) + Cardinality(n)

\* A conversion without declared modifiers whose two controllers are implicit.
C4_Witness ==
    \E i \in Processed :
        /\ Len(Emitted(i)) = 1
        /\ Emitted(i)[1].type = "GroupedControlledConversion"
        /\ reactions[i].modifiers = <<>>
        /\ Cardinality(Unlisted(reactions[i], Emitted(i)[1].rate_law)) = 2
        /\ Len(Emitted(i)[1].controllers) = 2

\* The declared parameter named lambda, if any.
DeclaresLambda == \E j \in DOMAIN doc.parameters : doc.parameters[j].id = IdLambda
LambdaValue ==
    LET j == CHOOSE j \in DOMAIN doc.parameters :
                 /\ doc.parameters[j].id = IdLambda
                 /\ \A m \in DOMAIN doc.parameters :
                        doc.parameters[m].id = IdLambda => m <= j
    IN  doc.parameters[j].value

RECURSIVE NamesOf(_)
NamesOf(f) ==
    CASE f.k = "name" -> {f.id}
      [] f.k = "op" -> NamesOf(f.l) \cup NamesOf(f.r)
      [] OTHER -> {}

\* C6, as stated: in a document with a parameter named lambda the renaming
\* reaches every string before it is parsed, so the name lambda is never
\* handed to the parser, and the parameter table and the symbol namespace hold
\* the placeholder.
C6_LambdaNeverParsed ==
    DeclaresLambda =>
        /\ \A j \in DOMAIN parser_input : IdLambda \notin NamesOf(parser_input[j])
        /\ pc \in {"loop", "returned"} =>
              /\ IdPlaceholder \in DOMAIN all_parameters
              /\ IdPlaceholder \in DOMAIN all_locals

ParameterIds == {doc.parameters[j].id : j \in DOMAIN doc.parameters}
CompartmentIds == {doc.compartments[j].id : j \in DOMAIN doc.compartments}
\* The species whose concepts a reaction's template holds.
TemplateSpecies(i) ==
    SeqToSet(Reactants(i)) \cup SeqToSet(Products(i))
    \cup (IF Emitted(i)[1].type \in ConversionTypes THEN SeqToSet(Modifiers(i)) ELSE {})

\* C7, as stated: every template has a rate law whose free symbols are
\* declared parameters, compartments or species of that template.
C7_FreeSymbolsDeclared ==
    \A i \in Processed :
        Len(Emitted(i)) = 1 =>
            /\ "rate_law" \in DOMAIN Emitted(i)[1]
            /\ variables_from_sympy_expr(Emitted(i)[1].rate_law)
                  \subseteq ParameterIds \cup CompartmentIds \cup TemplateSpecies(i)

\* C7, amended: every template has a rate law, and in a conversion template
\* every declared species among its free symbols is a reporter, the subject or
\* a controller of that template.
C7_ConversionRateSpecies ==
    \A i \in Processed :
        Len(Emitted(i)) = 1 =>
            LET t == Emitted(i)[1]
            IN  /\ "rate_law" \in DOMAIN t
                /\ t.type \in ConversionTypes =>
                      \A s \in (variables_from_sympy_expr(t.rate_law) \cap all_species)
                                  \ reporter_ids :
                          concepts[s] \in {t.subject} \cup SeqToSet(Controllers(t))

\* A controlled conversion whose rate law names its subject, its controller
\* and a parameter.
C7_Witness ==
    \E i \in Processed :
        /\ Len(Emitted(i)) = 1
        /\ Emitted(i)[1].type = "ControlledConversion"
        /\ variables_from_sympy_expr(Emitted(i)[1].rate_law) = {IdBeta, IdSus, IdInf}
        /\ reactions[i].modifiers = <<>>

\* What C8 calls a malformed reaction.
Malformed(reaction) ==
    \/ reaction.kinetic_law = NoKineticLaw
    \/ reaction.kinetic_law.formula = Bad
    \/ \E s \in SeqToSet(reaction.reactants) \cup SeqToSet(reaction.products)
                \cup SeqToSet(reaction.modifiers) :
           s \notin all_species /\ s \notin reporter_ids

\* C8, as stated: a malformed reaction raises nothing; it yields no template
\* and a skip record, and the call goes on.
C8_MalformedReactionSkipped ==
    \A i \in DOMAIN steps :
        Malformed(reactions[i]) =>
            /\ ~steps[i].raised
            /\ steps[i].templates = <<>>
            /\ steps[i].log # <<>>
            /\ pc # "raised"

\* C9: with an empty side after reporter exclusion: nothing on either side, no
\* template; no reactant and one product, one NaturalProduction of that
\* product; no reactant and several products, no template; one reactant and no
\* product, one NaturalDegradation of that reactant; several reactants and no
\* product, no template.
C9_EmptySide ==
    \A i \in Processed :
        LET r == Reactants(i)
            p == Products(i)
        IN  /\ (r = <<>> /\ p = <<>>) => Emitted(i) = <<>>
            /\ (r = <<>> /\ Len(p) = 1) =>
                  /\ Len(Emitted(i)) = 1
                  /\ Emitted(i)[1].type = "NaturalProduction"
                  /\ Emitted(i)[1].outcome = concepts[p[1]]
            /\ (r = <<>> /\ Len(p) > 1) => Emitted(i) = <<>>
            /\ (Len(r) = 1 /\ p = <<>>) =>
                  /\ Len(Emitted(i)) = 1
                  /\ Emitted(i)[1].type = "NaturalDegradation"
                  /\ Emitted(i)[1].subject = concepts[r[1]]
            /\ (Len(r) > 1 /\ p = <<>>) => Emitted(i) = <<>>

\* A production with two products was skipped and then a production with one
\* product was emitted.
C9_Witness ==
    /\ Len(steps) = 2
    /\ Processed = {1, 2}
    /\ Reactants(1) = <<>> /\ Len(Products(1)) = 2 /\ Emitted(1) = <<>>
    /\ Reactants(2) = <<>> /\ Len(Products(2)) = 1
    /\ Len(templates) = 1 /\ templates[1].type = "NaturalProduction"

\* Reactants and products present and not one of each.
ManyToMany(i) ==
    /\ Reactants(i) # <<>> /\ Products(i) # <<>>
    /\ ~OneToOne(i)

Participants(t) ==
    (IF "subject" \in DOMAIN t THEN {t.subject} ELSE {})
    \cup (IF "outcome" \in DOMAIN t THEN {t.outcome} ELSE {})
    \cup SeqToSet(Controllers(t))

\* C11: no template holds the concept of a species whose id is in the reporter
\* set, be the species a declared reactant, product or modifier of the
\* reaction or named by its rate law only; and a reaction is classified by the
\* numbers of reactants, products and modifiers that are left once the
\* reporters are taken out.
C11_ReportersExcluded ==
    \A i \in Processed :
        LET r == SelectSeq(reactions[i].reactants, LAMBDA s : s \notin reporter_ids)
            p == SelectSeq(reactions[i].products, LAMBDA s : s \notin reporter_ids)
            m == SelectSeq(ModifierSpecies(reactions[i]), LAMBDA s : s \notin reporter_ids)
            same == concepts[r[1]].name # <<>> /\ ConceptEq(concepts[r[1]], concepts[p[1]])
        IN  /\ \A j \in DOMAIN Emitted(i) :
                  \A s \in reporter_ids \cap all_species :
                      concepts[s] \notin Participants(Emitted(i)[j])
            /\ (Len(r) = 1 /\ Len(p) = 1 /\ ~same) =>
                  /\ Len(Emitted(i)) = 1
                  /\ Len(m) = 0 => Emitted(i)[1].type = "NaturalConversion"
                  /\ Len(m) = 1 => Emitted(i)[1].type = "ControlledConversion"
                  /\ Len(m) >= 2 => Emitted(i)[1].type = "GroupedControlledConversion"
            /\ (Len(r) = 0 /\ Len(p) = 1) =>
                  Len(Emitted(i)) = 1 /\ Emitted(i)[1].type = "NaturalProduction"
            /\ (Len(r) = 1 /\ Len(p) = 0) =>
                  Len(Emitted(i)) = 1 /\ Emitted(i)[1].type = "NaturalDegradation"

\* A reaction that lists a reporter beside its one other reactant, and names
\* the reporter in its rate law, was emitted as a NaturalConversion.
C11_Witness ==
    \E i \in Processed :
        /\ Len(reactions[i].reactants) = 2
        /\ \E j \in DOMAIN reactions[i].reactants :
              reactions[i].reactants[j] \in reporter_ids
        /\ reporter_ids \cap variables_from_sympy_expr(RateExpr(reactions[i])) # {}
        /\ Len(Emitted(i)) = 1
        /\ Emitted(i)[1].type = "NaturalConversion"

\* C12: the template list only grows at its end during a call: every step
\* keeps the templates it found, in their order; reading a reaction appends
\* what that reaction emitted, one template at most, and nothing when the
\* reaction is skipped; no other step changes the list; so the list never has
\* more templates than reactions were read.
C12_TemplatesAppendOnly ==
    [][ /\ Len(templates') >= Len(templates)
        /\ SubSeq(templates', 1, Len(templates)) = templates
        /\ IF Len(steps') = Len(steps) + 1
           THEN /\ templates' = templates \o steps'[Len(steps')].templates
                /\ Len(steps'[Len(steps')].templates) <= 1
           ELSE templates' = templates
        /\ Len(templates') <= Len(reactions')
      ]_vars

\* Two reactions were read: the first emitted a template, the second another,
\* and the list holds the two in that order.
C12_Witness ==
    /\ Len(steps) = 2
    /\ Processed = {1, 2}
    /\ Len(Emitted(1)) = 1 /\ Len(Emitted(2)) = 1
    /\ Emitted(1)[1].type = "NaturalDegradation"
    /\ Emitted(2)[1].type = "ControlledConversion"
    /\ templates = <<Emitted(1)[1], Emitted(2)[1]>>

\* The states in which _extract_concepts has returned.
Extracted == doc # NoModel /\ (pc # "start" \/ run = 2)
\* The declared species.
DeclaredSpecies == {doc.species[i] : i \in DOMAIN doc.species}

\* C13: _extract_concepts raises nothing and returns one Concept for each
\* declared species, under the species' id; the Concept of a species without
\* an annotation has no identifiers and no context, whatever the model id.
C13_OneConceptPerSpecies ==
    /\ (doc # NoModel /\ pc = "raised") => concepts # EmptyDict
    /\ Extracted =>
          /\ DOMAIN concepts = {s.id : s \in DeclaredSpecies}
          /\ \A s \in DeclaredSpecies :
                /\ DOMAIN concepts[s.id] = {"name", "identifiers", "context"}
                /\ ~s.annotation.present =>
                      /\ DOMAIN concepts[s.id].identifiers = {}
                      /\ DOMAIN concepts[s.id].context = {}

\* The concepts of a document with two species without annotation were
\* extracted under a model id.
C13_Witness ==
    /\ pc = "tables"
    /\ model_id = "BIOMD1"
    /\ Cardinality({s \in DeclaredSpecies : ~s.annotation.present}) = 2
    /\ Cardinality(DOMAIN concepts) = Len(doc.species)
    /\ DOMAIN concepts[IdRec].identifiers = {}

\* The identifier entry that names the species within its model.
ModelSpeciesEntry(c, species_id) ==
    /\ "biomodels.species" \in DOMAIN c.identifiers
    /\ c.identifiers["biomodels.species"] = <<model_id, ":">> \o species_id

\* C14, as stated: with a model id every Concept, that of a species without
\* annotation included, has the entry biomodels.species with the value
\* model_id:species_id; without a model id no Concept has the entry.
C14_EveryConceptTraceable ==
    Extracted =>
        \A s \in DeclaredSpecies :
            /\ model_id # NoModelId => ModelSpeciesEntry(concepts[s.id], s.id)
            /\ model_id = NoModelId =>
                  "biomodels.species" \notin DOMAIN concepts[s.id].identifiers

\* C14, amended: with a model id that is not the empty string the Concept of
\* every species that has an annotation, with or without external grounding,
\* has the entry; the Concept of a species without annotation never has it,
\* and with no model id or the empty string no Concept has it.
C14_AnnotatedConceptsTraceable ==
    Extracted =>
        \A s \in DeclaredSpecies :
            IF model_id \notin {NoModelId, ""} /\ s.annotation.present
            THEN ModelSpeciesEntry(concepts[s.id], s.id)
            ELSE "biomodels.species" \notin DOMAIN concepts[s.id].identifiers

\* Under a model id, the Concept of an annotated species without grounding
\* has the entry and nothing else, and that of a species without annotation
\* has no entry.
C14_Witness ==
    /\ pc = "tables"
    /\ model_id = "BIOMD1"
    /\ DOMAIN concepts[IdDead].identifiers = {"biomodels.species"}
    /\ concepts[IdDead].identifiers["biomodels.species"] = <<"BIOMD1", ":", "Dead">>
    /\ DOMAIN concepts[IdRec].identifiers = {}

\* C15, as stated: the name of every Concept is the species' display name
\* when it has one and the species' id otherwise, so no Concept has an empty
\* name.
C15_NameNeverEmpty ==
    Extracted =>
        \A s \in DeclaredSpecies :
            /\ concepts[s.id].name = (IF s.name # <<>> THEN s.name ELSE s.id)
            /\ concepts[s.id].name # <<>>

\* The (prefix, identifier) pairs of a Concept's external grounding, and
\* those of a list of resources.
ExternalPairs(c) ==
    {<<k, c.identifiers[k]>> : k \in DOMAIN c.identifiers \ {"biomodels.species"}}
ResourcePairs(uris) == {parse_uri(uris[i]) : i \in DOMAIN uris}

\* A grounding made of the resources of one list: each of its pairs is one
\* of the list's, and each registry of the list has an entry.
GroundedBy(c, uris) ==
    /\ ExternalPairs(c) \subseteq ResourcePairs(uris)
    /\ {pr[1] : pr \in ExternalPairs(c)} = {pr[1] : pr \in ResourcePairs(uris)}

\* C16: the external grounding of an annotated species comes from one
\* relation: from the bqbiol:is resources when there are any, the
\* bqbiol:isVersionOf resources being ignored, and from the bqbiol:isVersionOf
\* resources otherwise; a species with isVersionOf resources only is
\* grounded.
C16_OneRelationPath ==
    Extracted =>
        \A s \in DeclaredSpecies :
            s.annotation.present =>
                /\ s.annotation.is # <<>> =>
                      GroundedBy(concepts[s.id], s.annotation.is)
                /\ s.annotation.is = <<>> =>
                      GroundedBy(concepts[s.id], s.annotation.isVersionOf)
                /\ (s.annotation.is = <<>> /\ s.annotation.isVersionOf # <<>>) =>
                      ExternalPairs(concepts[s.id]) # {}

\* A species with resources under both relations is grounded by bqbiol:is
\* alone, and one with isVersionOf resources only by those.
C16_Witness ==
    /\ pc = "tables"
    /\ \E s \in DeclaredSpecies :
          /\ s.id = IdHosp
          /\ s.annotation.is # <<>> /\ s.annotation.isVersionOf # <<>>
          /\ ExternalPairs(concepts[IdHosp]) = {<<"ido", <<"0000622">>>>}
    /\ ExternalPairs(concepts[IdInf]) = {<<"ido", <<"0000511">>>>}

TableKey(i) == IF i = IdLambda THEN IdPlaceholder ELSE i

RECURSIVE SubstitutedOnce(_, _)
SubstitutedOnce(expr, rules) ==
    CASE expr.k = "sym" -> IF expr.name \in DOMAIN rules THEN rules[expr.name] ELSE expr
      [] expr.k = "op" -> Bin(expr.op, SubstitutedOnce(expr.l, rules),
                              SubstitutedOnce(expr.r, rules))
      [] OTHER -> expr

\* C18, as stated: the rate law of a template is the reaction's parsed rate
\* expression with each rule target in it replaced by the rule's body, a
\* target that occurs in a rule's body only being left as it is.
C18_RulesAppliedOnce ==
    \A i \in Processed :
        Len(Emitted(i)) = 1 =>
            Emitted(i)[1].rate_law =
                SubstitutedOnce(parse_expr(clean_formula(reactions[i].kinetic_law.formula),
                                           all_locals),
                                assignment_rules)

\* What C19 compares of a template: its variant, its subject, outcome and
\* controllers in their order, and the free variables of its rate law.
TemplateShape(t) ==
    <<t.type,
      IF "subject" \in DOMAIN t THEN <<t.subject>> ELSE <<>>,
      IF "outcome" \in DOMAIN t THEN <<t.outcome>> ELSE <<>>,
      Controllers(t),
      variables_from_sympy_expr(t.rate_law)>>

\* C19: a second call on the same document with the same model id and
\* reporter set, made after the first has returned, returns as well, and its
\* template list has the length of the first call's and, place by place,
\* templates of the same variant, participants and free variables, whatever
\* the first call left behind (the loaded converter, the logger's records,
\* the values of its variables).
C19_Deterministic ==
    run = 2 =>
        /\ pc # "raised"
        /\ pc = "returned" =>
              /\ Len(result.templates) = Len(previous.templates)
              /\ \A j \in DOMAIN result.templates :
                    TemplateShape(result.templates[j]) = TemplateShape(previous.templates[j])
              /\ result.parameters = previous.parameters

\* A second call has returned two templates, the converter having been
\* loaded by the first call.
C19_Witness ==
    /\ run = 2
    /\ pc = "returned"
    /\ converter = LoadedConverter
    /\ Len(previous.templates) = 2
    /\ Len(result.templates) = 2
    /\ result.templates[1].type # result.templates[2].type

\* An operator outside the table that get_formula_str comes to: at a node
\* without a name, or below such a node with an operator of the table.
RECURSIVE MeetsUnknownOperator(_)
MeetsUnknownOperator(ast_node) ==
    /\ ast_node.name = <<>>
    /\ ast_node.op # ""
    /\ \/ ast_node.op \notin {"times", "plus", "divide", "minus"}
       \/ MeetsUnknownOperator(ast_node.children[1])
       \/ MeetsUnknownOperator(ast_node.children[2])

\* C20: a document without a model, and a function definition whose body
\* holds an operator other than times, plus, minus and divide, end the call
\* with an exception: for the first at the first step, for the second while
\* the function definitions are compiled, before any rule or reaction is
\* read; nothing is returned, then or later.
C20_DocumentFaultsAbort ==
    /\ doc = NoModel =>
          /\ result = NoResult
          /\ pc \in {"start", "raised"}
          /\ pc = "raised" => error = "AttributeError" /\ templates = <<>>
    /\ (/\ doc # NoModel
        /\ \E j \in DOMAIN doc.function_definitions :
              MeetsUnknownOperator(doc.function_definitions[j].body)) =>
          /\ result = NoResult
          /\ pc \in {"start", "tables", "functions", "raised"}
          /\ pc = "raised" =>
                /\ error = "AssertionError"
                /\ assignment_rules = EmptyDict
                /\ reactions = <<>>
                /\ templates = <<>>

\* The call on a document whose second function definition holds a power
\* operator below a times has ended with the AssertionError, the first
\* definition compiled.
C20_Witness ==
    /\ pc = "raised"
    /\ error = "AssertionError"
    /\ Len(doc.function_definitions) = 2
    /\ IdF \in DOMAIN function_lambdas
    /\ result = NoResult

\* C27: across the calls of Converter.parse_uri on the module's converter, in
\* a first extraction and in a second one, the curies converter is built
\* exactly once, by the first call: there is none before that call, and once
\* there is one no step builds another or puts anything in its place.
C27_ConverterBuiltOnce ==
    [][LET first == /\ converter = NoConverter
                    /\ pc = "start"
                    /\ doc # NoModel
                    /\ CallsParseUri(doc)
       IN  /\ (converter = NoConverter) <=> (loads = 0)
           /\ loads' = IF first THEN 1 ELSE loads
           /\ converter' = IF first THEN LoadedConverter ELSE converter]_vars

\* A second extraction has gone through the species' resources with the
\* converter the first one built.
C27_Witness ==
    /\ run = 2
    /\ pc = "tables"
    /\ CallsParseUri(doc)
    /\ converter = LoadedConverter
    /\ loads = 1

\* Python's order of two identifiers: a < b.
Precedes(a, b) ==
    \E m, n \in DOMAIN IdOrder : IdOrder[m] = a /\ IdOrder[n] = b /\ m < n

\* The species a reaction's substituted rate law names.
RateSpecies(reaction) ==
    variables_from_sympy_expr(RateExpr(reaction))
    \cap {doc.species[j].id : j \in DOMAIN doc.species}

\* C23: the modifier list the classification sees is the declared modifiers
\* in document order, followed by the implicit modifiers in ascending order;
\* the implicit modifiers are exactly the declared species the substituted
\* rate names that are neither declared reactants nor declared modifiers (a
\* product the rate names is one of them), none of them twice; a conversion's
\* controllers are the concepts of this list.
C23_ModifierList ==
    \A i \in Processed :
        LET reaction == reactions[i]
            modifier_species == ModifierSpecies(reaction)
            n == Len(reaction.modifiers)
            implicit == SubSeq(modifier_species, n + 1, Len(modifier_species))
        IN  /\ Len(modifier_species) >= n
            /\ SubSeq(modifier_species, 1, n) = reaction.modifiers
            /\ SeqToSet(implicit) =
                   RateSpecies(reaction)
                   \ (SeqToSet(reaction.reactants) \cup SeqToSet(reaction.modifiers))
            /\ \A a, b \in DOMAIN implicit : a < b => Precedes(implicit[a], implicit[b])
            /\ OneToOne(i) /\ Emitted(i) # <<>>
               => Controllers(Emitted(i)[1]) = ConceptsOf(Kept(modifier_species))

\* One reaction with declared modifiers and two implicit ones, and one whose
\* product is an implicit modifier and its only controller.
C23_Witness ==
    /\ pc = "returned"
    /\ reporter_ids = {}
    /\ \E i \in Processed :
          /\ reactions[i].modifiers # <<>>
          /\ Cardinality(ImplicitModifiers(reactions[i])) = 2
          /\ OneToOne(i)
          /\ Emitted(i) # <<>>
          /\ Len(Controllers(Emitted(i)[1])) = Len(reactions[i].modifiers) + 2
    /\ \E j \in Processed :
          /\ reactions[j].modifiers = <<>>
          /\ OneToOne(j)
          /\ ImplicitModifiers(reactions[j]) = SeqToSet(reactions[j].products)
          /\ Emitted(j) # <<>>
          /\ Emitted(j)[1].type = "ControlledConversion"
          /\ Emitted(j)[1].controller = concepts[reactions[j].products[1]]

\* C29: a reaction with no reactant and one product, or with one reactant
\* and no product (reporters left out), emits exactly one NaturalProduction,
\* or one NaturalDegradation, whatever the number of its declared and
\* implicit modifiers: the template holds the concept and the rate law and
\* no controller, and the modifiers change neither the variant nor whether
\* the reaction is emitted.
C29_ModifiersIgnoredOnOpenSides ==
    \A i \in Processed :
        /\ Reactants(i) = <<>> /\ Len(Products(i)) = 1
           => /\ Len(Emitted(i)) = 1
              /\ Emitted(i)[1].type = "NaturalProduction"
              /\ DOMAIN Emitted(i)[1] = {"type", "outcome", "rate_law"}
              /\ Emitted(i)[1].outcome = concepts[Products(i)[1]]
        /\ Len(Reactants(i)) = 1 /\ Products(i) = <<>>
           => /\ Len(Emitted(i)) = 1
              /\ Emitted(i)[1].type = "NaturalDegradation"
              /\ DOMAIN Emitted(i)[1] = {"type", "subject", "rate_law"}
              /\ Emitted(i)[1].subject = concepts[Reactants(i)[1]]

\* A production with two declared modifiers and one implicit modifier, and
\* a degradation with a declared modifier, were emitted.
C29_Witness ==
    /\ pc = "returned"
    /\ \E i, j \in Processed :
          /\ Reactants(i) = <<>> /\ Len(Products(i)) = 1
          /\ Len(reactions[i].modifiers) = 2
          /\ ImplicitModifiers(reactions[i]) # {}
          /\ Len(Modifiers(i)) >= 2
          /\ Emitted(i)[1].type = "NaturalProduction"
          /\ Len(Reactants(j)) = 1 /\ Products(j) = <<>>
          /\ Modifiers(j) # <<>>
          /\ Emitted(j)[1].type = "NaturalDegradation"

\* The CURIE of a concept, as the triples hold it.
CurieOf(concept) == curie_to_str(get_curie(concept)[1], get_curie(concept)[2])

\* The pairs of concepts a template contributes.
PairsOf(template) ==
    IF template.type = "NaturalConversion"
    THEN {<<template.subject, template.outcome>>}
    ELSE {<<template.subject, template.outcome>>,
          <<template.subject, template.controller>>,
          <<template.outcome, template.controller>>}

Conversions(ts) ==
    \A j \in DOMAIN ts : ts[j].type \in {"NaturalConversion", "ControlledConversion"}

\* C21: for a template model of NaturalConversion and ControlledConversion
\* templates the constructed generator's triples are keyed by exactly the
\* tuples (subject CURIE, 'ro:0002323', object CURIE) with different subject
\* and object CURIEs, taken from (subject, outcome) of a NaturalConversion
\* and from (subject, outcome), (subject, controller), (outcome, controller)
\* of a ControlledConversion; each key holds its own triple, once, however
\* often it was yielded.
C21_TripleKeys ==
    generator.state = "constructed" /\ Conversions(generator.model.templates)
    => LET ts == generator.model.templates
           pairs == UNION {PairsOf(ts[j]) : j \in DOMAIN ts}
       IN  /\ DOMAIN generator.triples =
                  {<<CurieOf(p[1]), Predicate, CurieOf(p[2])>> :
                      p \in {q \in pairs : CurieOf(q[1]) # CurieOf(q[2])}}
           /\ \A key \in DOMAIN generator.triples :
                  generator.triples[key] = Triple(key[1], key[2], key[3])

\* A generator was constructed from a NaturalConversion and a
\* ControlledConversion that yield one triple twice and a pair of concepts
\* with one CURIE.
C21_Witness ==
    /\ generator.state = "constructed"
    /\ Len(generator.model.templates) = 2
    /\ generator.model.templates[1].type = "NaturalConversion"
    /\ generator.model.templates[2].type = "ControlledConversion"
    /\ generator.yielded[1][1] = generator.yielded[2][1]
    /\ \E j \in 1..3 : generator.yielded[2][j].sub = generator.yielded[2][j].obj
    /\ Cardinality(DOMAIN generator.triples) = 1

\* C30: iter_triples raises TypeError for a template that is neither a
\* ControlledConversion nor a NaturalConversion, so __init__ over a model
\* with such a template ends with TypeError at the first one and no generator
\* is constructed; a ControlledConversion yields its three triples from the
\* first branch and nothing from the NaturalConversion branch, which yields
\* the one triple of a NaturalConversion.
C30_OtherTemplatesRaise ==
    LET ts == generator.model.templates
        other(j) == ts[j].type \notin {"ControlledConversion", "NaturalConversion"}
    IN  generator.state # "none"
        => /\ generator.state = "constructed" => \A j \in DOMAIN ts : ~other(j)
           /\ generator.state = "raised"
              => /\ generator.error = "TypeError"
                 /\ generator.index \in DOMAIN ts
                 /\ other(generator.index)
                 /\ \A j \in 1..(generator.index - 1) : ~other(j)
           /\ generator.state = "loop"
              => \A j \in 1..(generator.index - 1) : ~other(j)
           /\ \A j \in DOMAIN generator.yielded :
                 Len(generator.yielded[j]) =
                     IF ts[j].type = "ControlledConversion" THEN 3 ELSE 1

\* __init__ ended with TypeError at a GroupedControlledConversion that
\* follows a ControlledConversion whose three triples were yielded.
C30_Witness ==
    /\ generator.state = "raised"
    /\ generator.error = "TypeError"
    /\ generator.index = 2
    /\ generator.model.templates[1].type = "ControlledConversion"
    /\ generator.model.templates[2].type = "GroupedControlledConversion"
    /\ Len(generator.yielded[1]) = 3

\* The model of the document an entry point's argument stands for.
ModelOf(arg) ==
    CASE arg.k = "path" -> arg.file.utf8.sbml
      [] arg.k = "file" -> arg.content.utf8.sbml
      [] arg.k = "str" -> arg.sbml

\* C22: template_model_from_sbml_file_path called with a path,
\* template_model_from_sbml_file called with an open binary file or with a
\* path, and template_model_from_sbml_string called with a text all reach
\* the extraction with the document's model and with model_id and
\* reporter_ids as the caller gave them, and what they hand back holds the
\* template list where the caller reads it, under `templates`.
C22_EntryPointsAgree ==
    call # NoCall
    => /\ pc = "raised" => call.passed.k = "SBMLDocument"
       /\ call.passed.k = "SBMLDocument" /\ pc # "document"
          => /\ doc = ModelOf(call.arg)
             /\ model_id = call.model_id
             /\ reporter_ids = SeqToSet(call.reporter_ids)
       /\ pc = "done"
          => /\ "templates" \in DOMAIN returned
             /\ returned.templates = templates

\* C24: the renaming leaves the identifier lambda_rate alone: a kinetic law
\* `lambda_rate` of a document that declares the parameter lambda_rate is
\* parsed to that parameter's symbol, its free variables are {lambda_rate},
\* and with no reactant and the product Inf the reaction gives the single
\* NaturalProduction of Inf with that rate law.
C24_LambdaRateUntouched ==
    \A i \in Processed :
        reactions[i].kinetic_law.formula = Name(IdLambdaRate)
        /\ IdLambdaRate \in DOMAIN parameter_symbols
        => /\ RateExpr(reactions[i]) = parameter_symbols[IdLambdaRate]
           /\ variables_from_sympy_expr(RateExpr(reactions[i])) = {IdLambdaRate}
           /\ Reactants(i) = <<>> /\ Products(i) = <<IdInf>>
              => Emitted(i) = <<NaturalProduction(concepts[IdInf], Symbol(IdLambdaRate))>>

\* The nodes of an operator tree.
RECURSIVE Nodes(_)
Nodes(n) == {n} \cup UNION {Nodes(n.children[j]) : j \in DOMAIN n.children}

TableImage(op) ==
    CASE op = "times" -> "*" [] op = "plus" -> "+" [] op = "minus" -> "-"
      [] op = "divide" -> "/"

\* The function bodies of the document, once they were reconstructed.
ReconstructedBodies ==
    IF doc = NoModel \/ pc \in {"start", "tables", "functions"} THEN {}
    ELSE {doc.function_definitions[j].body : j \in DOMAIN doc.function_definitions}

\* C25: for every node of a binary tree over the four operators of the
\* table, get_formula_str gives the node's name when it has one, whatever
\* its operator; for an unnamed operator node '(L op R)' with the table's
\* sign for the operator and the results of the first and the second child
\* for L and R; for an unnamed node without operator its numeric value.  So
\* the result is a float for a literal and a string for every other node,
\* and the string of a body is what parse_expr is handed.
C25_FormulaString ==
    \A body \in ReconstructedBodies :
        /\ \A n \in Nodes(body) :
              LET s == get_formula_str(n)
              IN  s # AssertFalse
                  => /\ n.name # <<>> => s = Name(n.name)
                     /\ n.name = <<>> /\ n.op # ""
                        => s = Bin(TableImage(n.op),
                                   FormatStr(get_formula_str(n.children[1])),
                                   FormatStr(get_formula_str(n.children[2])))
                     /\ n.name = <<>> /\ n.op = ""
                        => s = [k |-> "float", v |-> n.value]
                     /\ s.k = "float" <=> n.name = <<>> /\ n.op = ""
                     /\ s.k # "float" => s.k \in {"name", "op"}
        /\ body = doc.function_definitions[1].body
           /\ get_formula_str(body) # AssertFalse
           /\ get_formula_str(body) # [k |-> "float", v |-> NaN]
           => parser_input # <<>> /\ parser_input[1] = get_formula_str(body)

\* The body (x + 2.0) - y was reconstructed and handed to the parser, and so
\* was the body of a node with a name and an operator.
C25_Witness ==
    /\ pc = "rules"
    /\ \/ /\ doc.function_definitions[1].body =
                AstOp("minus", AstOp("plus", AstName(IdX), AstValue(Real(2))),
                      AstName(IdY))
          /\ parser_input[1] = Bin("-", Bin("+", Name(IdX), Lit(2)), Name(IdY))
       \/ /\ doc.function_definitions[1].body =
                AstNamedOp(IdY, "times", AstName(IdX), AstValue(Real(2)))
          /\ parser_input[1] = Name(IdY)

\* C26: a function definition whose reconstructed body is a literal is
\* handled without a fault: with the literal NaN it is skipped, gets no entry
\* in the namespace, and the extraction goes on to the next definition; with
\* any other body that can be reconstructed, a literal that is not NaN
\* included, it is compiled into a Lambda of its declared arguments, in
\* order, stored under its id.
C26_LiteralBodiesCompiled ==
    doc # NoModel /\ pc \notin {"start", "tables", "functions"}
    => \A j \in DOMAIN doc.function_definitions :
          LET fun_def == doc.function_definitions[j]
              formula_str == get_formula_str(fun_def.body)
          IN  (\A i \in 1..j : get_formula_str(doc.function_definitions[i].body)
                                   # AssertFalse)
              => IF formula_str = [k |-> "float", v |-> NaN]
                 THEN fun_def.id \notin DOMAIN function_lambdas
                 ELSE /\ fun_def.id \in DOMAIN function_lambdas
                      /\ function_lambdas[fun_def.id].args =
                             [a \in DOMAIN fun_def.args |-> Symbol(fun_def.args[a])]

\* The names of the Symbol leaves of an expression.
RECURSIVE SymbolLeaves(_)
SymbolLeaves(expr) ==
    IF expr.k = "sym" THEN {expr.name}
    ELSE IF expr.k = "op" THEN SymbolLeaves(expr.l) \cup SymbolLeaves(expr.r)
    ELSE {}

\* Whether an expression holds the Lambda of a function definition.
RECURSIVE HoldsLambda(_)
HoldsLambda(expr) ==
    \/ expr.k = "lambda"
    \/ expr.k = "op" /\ (HoldsLambda(expr.l) \/ HoldsLambda(expr.r))

\* C28 as it was stated: variables_from_sympy_expr returns exactly the names
\* of the Symbol leaves, and every rate expression that parsing and
\* substituting a reaction's formula gives is accepted, none ending in the
\* assertion.
C28_EveryRateAccepted ==
    \A i \in DOMAIN steps :
        /\ steps[i].raised => error # "AssertionError"
        /\ ~steps[i].raised
           => variables_from_sympy_expr(RateExpr(reactions[i]))
                  = SymbolLeaves(RateExpr(reactions[i]))

\* C28, amended: for a rate expression of symbols, numbers and operators
\* variables_from_sympy_expr returns exactly the names of the Symbol leaves
\* (a number has none), and the implicit controller of a conversion comes
\* from that set; a rate expression that holds the Lambda of a function
\* definition, because the formula names the function without applying it,
\* fails the assertion and ends the call with AssertionError.
C28_VariablesOfRate ==
    pc \in {"loop", "returned", "done", "raised"}
    => \A i \in DOMAIN steps :
          LET rate_expr == RateExpr(reactions[i])
          IN  IF HoldsLambda(rate_expr)
              THEN steps[i].raised /\ error = "AssertionError" /\ result = NoResult
              ELSE /\ ~steps[i].raised
                   /\ variables_from_sympy_expr(rate_expr) = SymbolLeaves(rate_expr)
                   /\ OneToOne(i) /\ IdInf \in SymbolLeaves(rate_expr)
                      => /\ Emitted(i)[1].type = "ControlledConversion"
                         /\ Emitted(i)[1].controller = concepts[IdInf]

\* A rate law beta*2*Inf gave its conversion the controller Inf, and the
\* next reaction, with the rate law `f` of a compiled function f, ended the
\* call with AssertionError.
C28_Witness ==
    /\ pc = "raised"
    /\ error = "AssertionError"
    /\ Len(steps) = 2
    /\ ~steps[1].raised
    /\ variables_from_sympy_expr(RateExpr(reactions[1])) = {IdBeta, IdInf}
    /\ Emitted(1)[1].type = "ControlledConversion"
    /\ steps[2].raised
    /\ IdF \in DOMAIN function_lambdas
    /\ reactions[2].kinetic_law.formula = Name(IdF)

====
